---- MODULE Spec2Model ----
(***************************************************************************)
(* Supamole: discovery and exposure-audit engine of the Supabase data      *)
(* extractor (src/unnamed/part_000 = the extraction library followed by    *)
(* the PII detector; src/extract-data.js = the command-line variant).      *)
(*                                                                         *)
(* The remote service is the environment: every request an operation       *)
(* issues is answered by a response drawn from a small set (a value, an    *)
(* error value, a thrown exception, a malformed body).                     *)
(*                                                                         *)
(* JavaScript values: strings are TLA+ strings; the values null and        *)
(* undefined are the marker strings JsNull and JsUndefined; an object is a *)
(* function from its own keys to values; an array is a sequence.           *)
(***************************************************************************)
EXTENDS Integers, Sequences, FiniteSets, TLC

VARIABLES
  top,               \* the routine the behaviour runs at top level
  pc,                \* position of the running routine
  thrown,            \* "none", or the exception that escaped the top routine
  \* getSchemaInfo
  fastDiscovery,     \* its fastDiscovery argument
  discoveredTables,  \* the accumulated descriptor list
  strategyOut,       \* history: what each discovery strategy contributed
  tableList,         \* its return value (uniqueTables)
  common,            \* discoverCommonTables probe by probe: loop index, probes in flight, results
  graphSchema,       \* discoverViaGraphQL on its own: the schema the graph endpoint serves
  \* getTableColumns and extractTableData
  table,             \* the descriptor being extracted
  colServer,         \* what the service answers to each column request
  columns,           \* getTableColumns' return value
  requests,          \* history: the requests issued for this collection
  query,             \* the row query's data, error and count
  extracted,         \* extractTableData's result object
  \* maskAuthUsersRow
  maskRow,           \* its argument
  maskOut,           \* its return value
  \* detectPII
  piiColumns,      \* its first argument
  piiRows,        \* its second argument
  findings,          \* its return value
  \* analyzeStorageBuckets
  buckets,           \* the buckets still to scan
  bucket,            \* the bucket being scanned
  objects,           \* the bucket's indexed objects
  scan,              \* offset, folder and sample loop positions
  bucketOut,         \* the audit of the bucket being scanned
  out,               \* the audits returned
  \* runExtraction
  config,            \* the run configuration
  authResult,        \* authenticateUser's return value
  tableIdx,          \* position of the extraction loop in tableList
  result,            \* the RunResult
  discoveryLog,      \* the messages logged
  calls,             \* history: the requests of the run, of discovery and listBuckets
  recovered,         \* history: the failed requests the routines went on after
  \* server.js
  runCountByIp,      \* the rate limiter's entry of each client address
  now,               \* Date.now()
  admitted,          \* history: when the requests of each address were let through, last minute
  response           \* history: the address and status of the last response

discVars == <<fastDiscovery, discoveredTables, strategyOut, tableList, common, graphSchema>>
extVars == <<table, colServer, columns, requests, query, extracted>>
maskVars == <<maskRow, maskOut>>
piiVars == <<piiColumns, piiRows, findings>>
stoVars == <<buckets, bucket, objects, scan, bucketOut, out>>
cfgVars == <<config, authResult, tableIdx, result>>
logVars == <<discoveryLog, calls, recovered>>
runVars == <<cfgVars, logVars>>
srvVars == <<runCountByIp, now, admitted, response>>
vars == <<top, pc, thrown, discVars, extVars, maskVars, piiVars, stoVars, runVars, srvVars>>

-----------------------------------------------------------------------------
(* JavaScript values *)

JsNull == "<null>"
JsUndefined == "<undefined>"

Range(s) == {s[i] : i \in 1..Len(s)}

RECURSIVE Str(_)
\* a string from its characters (String.prototype joins)
Str(cs) == IF cs = <<>> THEN "" ELSE Head(cs) \o Str(Tail(cs))

RECURSIVE Flatten(_)
Flatten(ss) == IF ss = <<>> THEN <<>> ELSE Head(ss) \o Flatten(Tail(ss))

\* a request that failed: an error value or an exception of the request
\* `what` made for `ref`
Failure(what, ref) == [what |-> what, ref |-> ref]

\* what one step leaves behind: the requests it issues, the messages it logs
\* before the answers, the failures it goes on after (each with the length
\* of the log when it happened) and the messages it logs afterwards
Trace(reqs, before, failures, after) ==
  /\ calls' = calls \o reqs
  /\ discoveryLog' = discoveryLog \o before \o after
  /\ recovered' =
       recovered \o [i \in 1..Len(failures) |->
                       [what |-> failures[i].what, ref |-> failures[i].ref,
                        at |-> Len(discoveryLog) + Len(before)]]

\* self.findIndex((t) => t.table_name === name) (1-based; 0 when none matches)
FindIndex(self, name) ==
  IF \E i \in 1..Len(self) : self[i].table_name = name
  THEN CHOOSE i \in 1..Len(self) :
         self[i].table_name = name /\ \A j \in 1..(i - 1) : self[j].table_name # name
  ELSE 0

-----------------------------------------------------------------------------
(* Collection descriptors *)

\* a descriptor object; js = "null" is the value null in a row list
Desc(n, s, t) ==
  [table_name |-> n, table_schema |-> s, table_type |-> t,
   graphql_type |-> JsUndefined, field_count |-> 0, js |-> "object"]

GraphDesc(n, g, fc) ==
  [table_name |-> n, table_schema |-> "public", table_type |-> "GRAPHQL_TYPE",
   graphql_type |-> g, field_count |-> fc, js |-> "object"]

NullRow ==
  [table_name |-> JsUndefined, table_schema |-> JsUndefined, table_type |-> JsUndefined,
   graphql_type |-> JsUndefined, field_count |-> 0, js |-> "null"]

\* reading .table_name of null throws a TypeError
MergeThrows(tables) == \E i \in 1..Len(tables) : tables[i].js = "null"

\* a de-duplication that keeps a name only when it occurs once
UniqueTablesDropRepeated(tables) ==
  LET Keep(i) == \A j \in 1..Len(tables) :
                    tables[j].table_name = tables[i].table_name => j = i
      idx == SelectSeq([i \in 1..Len(tables) |-> i], Keep)
  IN [k \in 1..Len(idx) |-> tables[idx[k]]]

\* a de-duplication that keeps the last descriptor of a name
UniqueTablesLastWins(tables) ==
  LET Keep(i) == \A j \in (i + 1)..Len(tables) :
                    tables[j].table_name # tables[i].table_name
      idx == SelectSeq([i \in 1..Len(tables) |-> i], Keep)
  IN [k \in 1..Len(idx) |-> tables[idx[k]]]

\* no de-duplication
UniqueTablesIdentity(tables) == tables

\* discoveredTables.filter((table, index, self) =>
\*   index === self.findIndex((t) => t.table_name === table.table_name))
UniqueTables(tables) ==
  LET Keep(i) == i = FindIndex(tables, tables[i].table_name)
      idx == SelectSeq([i \in 1..Len(tables) |-> i], Keep)
  IN [k \in 1..Len(idx) |-> tables[idx[k]]]

-----------------------------------------------------------------------------
(* Responses of the remote service to the discovery requests *)

\* a supabase-js query: it throws, or resolves to {data, error}
QThrow == [kind |-> "throw", rows |-> <<>>]
QError == [kind |-> "error", rows |-> <<>>]
\* data: null
QNull == [kind |-> "null", rows |-> <<>>]
\* data: a truthy value that is no array and has no length
QNotList == [kind |-> "notlist", rows |-> <<>>]
QRows(rows) == [kind |-> "rows", rows |-> rows]
QFailures == {QThrow, QError, QNull, QNotList}

PublicOrders == Desc("orders", "public", "BASE TABLE")
PublicUsers == Desc("users", "public", "BASE TABLE")
PublicSessions == Desc("sessions", "public", "BASE TABLE")
AuthUsers == Desc("users", "auth", "BASE TABLE")
AuthSessions == Desc("sessions", "auth", "BASE TABLE")

\* rows of pg_tables and of information_schema.views
PgRow(n, s) == [name |-> n, schema |-> s, js |-> "object"]
PgNullRow == [name |-> JsUndefined, schema |-> JsUndefined, js |-> "null"]

\* answers to the zero-row probes of a name list: each "ok", "error" or "throw"
ProbeAnswers(names, ok, throwing) ==
  [n \in Range(names) |-> IF n \in ok THEN "ok"
                          ELSE IF n \in throwing THEN "throw" ELSE "error"]

authTableNames ==
  <<"users", "identities", "sessions", "refresh_tokens", "audit_log_entries",
    "instances", "schema_migrations", "flow_state", "saml_providers",
    "saml_relay_states", "sso_providers", "sso_domains", "mfa_factors",
    "mfa_challenges", "mfa_amr_claims", "one_time_tokens">>

COMMON_TABLES == <<
  "users", "user", "profiles", "user_profiles", "accounts", "members",
   "customers", "clients", "employees", "staff", "admins", "moderators",
   "auth_users", "roles", "permissions", "user_roles", "role_permissions",
   "sessions", "tokens", "api_keys", "auth_tokens", "refresh_tokens",
   "posts", "articles", "pages", "content", "blogs", "news", "stories",
   "comments", "replies", "reviews", "feedback", "testimonials",
   "categories", "tags", "topics", "subjects", "labels", "files", "uploads",
   "documents", "images", "videos", "audio", "attachments", "media",
   "assets", "resources", "products", "items", "inventory", "stock",
   "variants", "skus", "orders", "cart", "cart_items", "order_items",
   "purchases", "payments", "transactions", "invoices", "receipts",
   "billing", "shipping", "addresses", "coupons", "discounts", "promotions",
   "companies", "organizations", "departments", "teams", "groups",
   "branches", "offices", "locations", "places", "venues", "events",
   "appointments", "bookings", "reservations", "schedules", "calendar",
   "meetings", "slots", "availability", "messages", "notifications",
   "emails", "sms", "alerts", "chats", "conversations", "threads",
   "channels", "logs", "audit_logs", "activity_logs", "access_logs",
   "error_logs", "analytics", "metrics", "stats", "reports", "tracking",
   "settings", "config", "configuration", "preferences", "options",
   "features", "flags", "toggles", "variables", "constants", "countries",
   "states", "cities", "regions", "districts", "zones", "postcodes",
   "zipcodes", "coordinates", "maps", "friends", "followers", "following",
   "connections", "relationships", "likes", "favorites", "bookmarks",
   "shares", "votes", "projects", "tasks", "todos", "issues", "tickets",
   "bugs", "milestones", "sprints", "boards", "workflows", "migrations",
   "seeds", "backups", "imports", "exports", "queues", "jobs", "workers",
   "processes", "crons", "audit", "history", "versions", "revisions",
   "changes", "temp", "temporary", "cache", "buffer" >>

\* a fetch: it throws, answers with a status that is not ok, or with a body
FThrow == [kind |-> "throw"]
FNotOk == [kind |-> "notok"]
\* response.json() throws
FBadJson == [kind |-> "badjson"]

-----------------------------------------------------------------------------
(* Discovery strategies: what each contributes, from the response it got *)

\* Methods 1a and 1b: the rows are appended as they came
CatalogTables(r) == IF r.kind = "rows" /\ Len(r.rows) > 0 THEN r.rows ELSE <<>>

\* Methods 2 and 4: the rows are mapped inside the try block, so a null row
\* throws there and nothing is appended
MappedTables(r, type) ==
  IF r.kind = "rows" /\ Len(r.rows) > 0
  THEN IF \E i \in 1..Len(r.rows) : r.rows[i].js = "null"
       THEN <<>>
       ELSE [i \in 1..Len(r.rows) |->
               Desc(r.rows[i].name, r.rows[i].schema,
                    IF type = "pg" THEN "BASE TABLE" ELSE "VIEW")]
  ELSE <<>>

\* Method 3: rows are table names
getTablesFromRPC(r) ==
  IF r.kind = "rows"
  THEN [i \in 1..Len(r.rows) |-> Desc(r.rows[i], "public", "BASE TABLE")]
  ELSE <<>>

\* Method 4b: one zero-row probe per known auth table
discoverAuthTables(answers) ==
  LET Found(n) == answers[n] = "ok"
      found == SelectSeq(authTableNames, Found)
  IN [i \in 1..Len(found) |-> Desc(found[i], "auth", "BASE TABLE")]

\* Method 7: one zero-row probe per common name
discoverCommonTables(answers) ==
  LET Found(n) == answers[n] = "ok"
      found == SelectSeq(COMMON_TABLES, Found)
  IN [i \in 1..Len(found) |-> Desc(found[i], "public", "BASE TABLE")]

Includes(cs, c) == \E i \in 1..Len(cs) : cs[i] = c

\* Method 5: the keys of openApiSpec.paths, each a character sequence
discoverViaRestAPI(r) ==
  IF r.kind = "paths"
  THEN LET IsPath(p) == Len(p) > 0 /\ p[1] = "/" /\ ~Includes(p, "{")
           IsName(n) == n # <<>> /\ ~Includes(n, "/")
           paths == SelectSeq(r.paths, IsPath)
           names == SelectSeq([i \in 1..Len(paths) |-> Tail(paths[i])], IsName)
       IN [i \in 1..Len(names) |-> Desc(Str(names[i]), "public", "BASE TABLE")]
  ELSE <<>>

UpperChars ==
  <<"A", "B", "C", "D", "E", "F", "G", "H", "I", "J", "K", "L", "M",
    "N", "O", "P", "Q", "R", "S", "T", "U", "V", "W", "X", "Y", "Z">>
LowerChars ==
  <<"a", "b", "c", "d", "e", "f", "g", "h", "i", "j", "k", "l", "m",
    "n", "o", "p", "q", "r", "s", "t", "u", "v", "w", "x", "y", "z">>

IsUpper(c) == \E i \in 1..Len(UpperChars) : UpperChars[i] = c

\* String.prototype.toLowerCase, one character
ToLower(c) ==
  IF IsUpper(c)
  THEN LowerChars[CHOOSE i \in 1..Len(UpperChars) : UpperChars[i] = c]
  ELSE c

StartsWith(cs, prefix) ==
  Len(cs) >= Len(prefix) /\ SubSeq(cs, 1, Len(prefix)) = prefix

EndsWith(cs, suffix) ==
  Len(cs) >= Len(suffix) /\ SubSeq(cs, Len(cs) - Len(suffix) + 1, Len(cs)) = suffix

\* type.name.replace(/([A-Z])/g, '_$1').toLowerCase().replace(/^_/, '')
GraphTableName(cs) ==
  LET marked == Flatten([i \in 1..Len(cs) |->
                           IF IsUpper(cs[i]) THEN <<"_", cs[i]>> ELSE <<cs[i]>>])
      lower == [i \in 1..Len(marked) |-> ToLower(marked[i])]
  IN IF lower # <<>> /\ lower[1] = "_" THEN Tail(lower) ELSE lower

\* a type reference as the chain type, type.ofType, ...: the loop
\* while (returnType?.ofType) returnType = returnType.ofType ends on the last one
UnwrapType(ref) == ref[Len(ref)]

\* the introspection query selects type { name kind ofType { name kind
\* ofType { name kind } } }: the levels of ofType below a field's type
OFTYPE_LEVELS == 2

\* what the response holds of a field's type: the type itself and the
\* levels of ofType the query selected
Introspected(ref) ==
  SubSeq(ref, 1, IF Len(ref) > OFTYPE_LEVELS + 1 THEN OFTYPE_LEVELS + 1 ELSE Len(ref))

\* a name of null is the empty character sequence
GraphScalars == {"String", "Int", "Float", "Boolean", "ID"}

\* Method 5b: r.fields = the types of the fields of the server's query type,
\* r.types = schema.types
discoverViaGraphQL(r) ==
  IF r.kind = "schema"
  THEN LET ReturnType(ref) == UnwrapType(Introspected(ref))
           IsReturnType(ref) ==
             LET n == ReturnType(ref).name
             IN n # <<>> /\ ~StartsWith(n, <<"_", "_">>) /\ Str(n) \notin GraphScalars
           queryReturnTypes ==
             {Str(ReturnType(r.fields[i]).name) :
                i \in {j \in 1..Len(r.fields) : IsReturnType(r.fields[j])}}
           Queryable(type) ==
             /\ Str(type.name) \in queryReturnTypes
             /\ type.kind = "OBJECT"
             /\ type.nfields > 0
             /\ ~EndsWith(type.name, <<"C", "o", "n", "n", "e", "c", "t", "i", "o", "n">>)
             /\ ~EndsWith(type.name, <<"E", "d", "g", "e">>)
             /\ ~EndsWith(type.name, <<"P", "a", "g", "e", "I", "n", "f", "o">>)
           queryableTypes == SelectSeq(r.types, Queryable)
       IN [i \in 1..Len(queryableTypes) |->
             GraphDesc(Str(GraphTableName(queryableTypes[i].name)),
                       Str(queryableTypes[i].name), queryableTypes[i].nfields)]
  ELSE <<>>

-----------------------------------------------------------------------------
(* Rows and column descriptors *)

\* an object is the sequence of its own properties, in key order
Prop(k, v) == [k |-> k, v |-> v]
Keys(row) == [i \in 1..Len(row) |-> row[i].k]
Has(row, k) == \E i \in 1..Len(row) : row[i].k = k
\* row[k]
Get(row, k) ==
  IF Has(row, k) THEN row[CHOOSE i \in 1..Len(row) : row[i].k = k].v ELSE JsUndefined

\* the value null where a row is expected
NullObject == <<Prop(JsNull, JsNull)>>

\* a value in a condition: "", null and undefined are falsy
Truthy(v) == v \notin {"", JsNull, JsUndefined}

MASKED == "[MASKED]"

SensitiveFields == <<"encrypted_password", "email_confirmation_token", "recovery_token">>

\* row.k ? '[MASKED]' : row.k
MaskValue(row, k) == IF Truthy(Get(row, k)) THEN MASKED ELSE Get(row, k)

\* { ...row, encrypted_password: ..., email_confirmation_token: ..., recovery_token: ... }:
\* the three properties are written whether the row has them or not
maskAuthUsersRow(row) ==
  IF row = NullObject
  THEN row
  ELSE LET Missing(k) == ~Has(row, k)
           added == SelectSeq(SensitiveFields, Missing)
       IN [i \in 1..Len(row) |->
             IF row[i].k \in Range(SensitiveFields)
             THEN Prop(row[i].k, MaskValue(row, row[i].k))
             ELSE row[i]]
          \o [i \in 1..Len(added) |-> Prop(added[i], MaskValue(row, added[i]))]

\* a column descriptor; ordinal_position 0 is an absent one
Col(n, type, nullable, default, ord) ==
  [column_name |-> n, data_type |-> type, is_nullable |-> nullable,
   column_default |-> default, ordinal_position |-> ord]

\* getTableColumns' return value: null, an array, or some other truthy value
ColNull == [kind |-> "null", cols |-> <<>>]
ColList(cols) == [kind |-> "list", cols |-> cols]
ColNotList == [kind |-> "notlist", cols |-> <<>>]

\* a descriptor for every key but the last
InferColumnsButLast(row) ==
  [i \in 1..(Len(row) - 1) |-> Col(row[i].k, "unknown", "YES", JsNull, 0)]

\* Object.keys(sampleData[0]).map((colName) => ({...}))
InferColumns(row) ==
  [i \in 1..Len(row) |-> Col(row[i].k, "unknown", "YES", JsNull, 0)]

\* the data of a row query: null, an array of rows, or a parsed body that is
\* no array but has a length (the JSON object {"length": n})
DataNull == [isNull |-> TRUE, isArray |-> FALSE, rows |-> <<>>, length |-> 0]
Data(rows) == [isNull |-> FALSE, isArray |-> TRUE, rows |-> rows, length |-> Len(rows)]
DataObject(n) == [isNull |-> FALSE, isArray |-> FALSE, rows |-> <<>>, length |-> n]

\* the message of the TypeError of data.slice(...) on a value without slice
NO_SLICE == "data.slice is not a function"

\* count: null
CountNull == -1

\* a row query resolved to {data, error, count}; error is null or its message
Resolved(data, error, count) ==
  [kind |-> "resolved", data |-> data, error |-> error, count |-> count]
\* a row query that threw, with the exception's message
Threw(message) ==
  [kind |-> "throw", data |-> DataNull, error |-> message, count |-> CountNull]

SAMPLE_ROWS_COUNT == 3

\* data.slice(0, SAMPLE_ROWS_COUNT)
Slice(rows, n) == SubSeq(rows, 1, IF Len(rows) < n THEN Len(rows) ELSE n)

\* table.table_schema || 'public'
TableSchema(t) == IF Truthy(t.table_schema) THEN t.table_schema ELSE "public"

\* a masking condition that looks at the name alone
IsAuthUsersByName(t) == t.table_name = "users"

\* tableSchema === 'auth' && tableName === 'users'
IsAuthUsers(t) == TableSchema(t) = "auth" /\ t.table_name = "users"

\* tableSchema === 'public' ? tableName : `${tableSchema}.${tableName}`
TableRef(t) ==
  IF TableSchema(t) = "public" THEN t.table_name
  ELSE TableSchema(t) \o "." \o t.table_name

\* a result object that starts with an unknown count
EmptyResultUncounted(t) ==
  [columns |-> ColNull, rowCount |-> CountNull, sampleRows |-> <<>>, error |-> JsNull,
   table_name |-> t.table_name, table_schema |-> TableSchema(t),
   table_type |-> t.table_type, graphql_type |-> t.graphql_type]

\* the result object extractTableData starts from
EmptyResult(t) ==
  [columns |-> ColNull, rowCount |-> 0, sampleRows |-> <<>>, error |-> JsNull,
   table_name |-> t.table_name, table_schema |-> TableSchema(t),
   table_type |-> t.table_type, graphql_type |-> t.graphql_type]


-----------------------------------------------------------------------------
(* What the service may answer, per routine run at top level: the whole run *)
(* draws from fewer answers than a routine checked on its own               *)

NoAuthTables == ProbeAnswers(authTableNames, {}, {})
NoCommonTables == ProbeAnswers(COMMON_TABLES, {}, {})

RestPaths(paths) == [kind |-> "paths", paths |-> paths]
\* openApiSpec.paths is absent
RestNoPaths == [kind |-> "nopaths", paths |-> <<>>]

GraphSchema(fields, types) == [kind |-> "schema", fields |-> fields, types |-> types]
\* result.data.__schema or queryType.fields is absent
GraphNoSchema == [kind |-> "noschema"]

TypeRef(n, k) == [name |-> n, kind |-> k]
GraphType(n, k, nf) == [name |-> n, kind |-> k, nfields |-> nf]

NameOrders == <<"O", "r", "d", "e", "r", "s">>
NameOrderItems == <<"O", "r", "d", "e", "r", "I", "t", "e", "m", "s">>
NameOrdersConnection ==
  <<"O", "r", "d", "e", "r", "s", "C", "o", "n", "n", "e", "c", "t", "i", "o", "n">>
NameString == <<"S", "t", "r", "i", "n", "g">>
NameIntrospection == <<"_", "_", "T", "y", "p", "e">>

\* orders: [Orders!]!, orderItems: OrderItems, ordersCollection:
\* OrdersConnection, version: String!, __type: __Type
SampleGraphSchema ==
  GraphSchema(
    <<<<TypeRef(<<>>, "NON_NULL"), TypeRef(<<>>, "LIST"), TypeRef(NameOrders, "OBJECT")>>,
      <<TypeRef(NameOrderItems, "OBJECT")>>,
      <<TypeRef(NameOrdersConnection, "OBJECT")>>,
      <<TypeRef(<<>>, "NON_NULL"), TypeRef(NameString, "SCALAR")>>,
      <<TypeRef(NameIntrospection, "OBJECT")>>>>,
    <<GraphType(NameString, "SCALAR", 0), GraphType(NameOrders, "OBJECT", 4),
      GraphType(NameOrdersConnection, "OBJECT", 2),
      GraphType(NameOrderItems, "OBJECT", 3),
      GraphType(NameIntrospection, "OBJECT", 5)>>)

\* a schema whose only object type has no fields
EmptyGraphSchema ==
  GraphSchema(<<<<TypeRef(NameOrders, "OBJECT")>>>>, <<GraphType(NameOrders, "OBJECT", 0)>>)

PathRoot == <<"/">>
PathOrders == <<"/", "o", "r", "d", "e", "r", "s">>
PathRpc == <<"/", "r", "p", "c", "/", "f">>
PathParam == <<"/", "o", "/", "{", "i", "d", "}">>
PathBare == <<"o", "r", "d", "e", "r", "s">>
PathAuthUsers == <<"/", "a", "u", "t", "h", ".", "u", "s", "e", "r", "s">>

\* rows of auth.users (the first is the row of the masking example)
UserRow1 ==
  <<Prop("id", "5"), Prop("encrypted_password", "abc"), Prop("recovery_token", ""),
    Prop("email", "a@b.com")>>
UserRow2 ==
  <<Prop("id", "6"), Prop("encrypted_password", JsNull),
    Prop("email_confirmation_token", "tok"), Prop("recovery_token", "rt")>>
UserRow3 == <<Prop("id", "7")>>
UserRow4 == <<Prop("id", "8"), Prop("name", "Ann"), Prop("dob", "1990-01-01")>>
\* a row of a table without columns
EmptyRow == <<>>

CatalogColumns ==
  <<Col("id", "integer", "NO", JsNull, 1), Col("email", "text", "YES", JsNull, 2)>>
RpcColumns == <<Col("id", "bigint", "NO", JsNull, 0)>>

\* what the service answers to getTableColumns' four requests
ColServer(catalog, probe, sample, rpc) ==
  [catalog |-> catalog, probe |-> probe, sample |-> sample, rpc |-> rpc]

ColServers ==
  {ColServer(c, p, s, r) :
     c \in {QThrow, QError, QNotList, QRows(<<>>), QRows(CatalogColumns)},
     p \in {"ok", "error", "throw"},
     s \in {QThrow, QError, QNull, QRows(<<>>), QRows(<<UserRow1, UserRow3>>),
            QRows(<<EmptyRow>>), QRows(<<NullObject>>)},
     r \in {QThrow, QError, QNull, QNotList, QRows(<<>>), QRows(RpcColumns)}}

DENIED == "permission denied for table"
FETCH_FAILED == "fetch failed"
NO_RELATION == "relation does not exist"

Answers(what) ==
  IF top = "runExtraction"
  THEN CASE what = "m1a" -> {QError, QRows(<<PublicOrders>>)}
         [] what = "m1b" -> {QError}
         [] what = "m2" -> {QThrow}
         [] what = "m3" -> {QError}
         [] what = "m4" -> {QNull}
         [] what = "m4b" -> {NoAuthTables, ProbeAnswers(authTableNames, {"users"}, {})}
         [] what = "m5" -> {FNotOk}
         [] what = "m5b" -> {FNotOk, SampleGraphSchema}
         [] what = "m7" -> {NoCommonTables, ProbeAnswers(COMMON_TABLES, {"orders"}, {})}
         [] what = "columns" ->
              {ColServer(QError, "error", QError, QError),
               ColServer(QError, "ok", QRows(<<UserRow4>>), QError),
               ColServer(QError, "error", QError, QNotList)}
         [] what = "rows" ->
              {Resolved(DataNull, DENIED, CountNull),
               Resolved(Data(<<UserRow1, UserRow2, UserRow3, UserRow4>>), JsNull, 4)}
         [] what = "retry" ->
              {Resolved(DataNull, NO_RELATION, CountNull),
               Resolved(Data(<<UserRow3>>), JsNull, 1)}
  ELSE CASE what = "m1a" ->
              QFailures \cup {QRows(<<>>), QRows(<<PublicOrders>>),
                              QRows(<<PublicUsers, PublicOrders>>), QRows(<<NullRow>>)}
         [] what = "m1b" ->
              {QThrow, QError, QRows(<<AuthUsers>>), QRows(<<AuthUsers, AuthSessions>>)}
         [] what = "m2" ->
              {QThrow, QError,
               QRows(<<PgRow("orders", "public"), PgRow("users", "auth")>>),
               QRows(<<PgRow("orders", "public"), PgNullRow>>)}
         [] what = "m3" ->
              {QThrow, QError, QNotList, QRows(<<>>), QRows(<<"orders", "auth.users">>)}
         [] what = "m4" ->
              {QThrow, QError, QRows(<<PgRow("order_totals", "public")>>),
               QRows(<<PgNullRow>>)}
         [] what = "m4b" ->
              {NoAuthTables,
               ProbeAnswers(authTableNames, {"users", "sessions"}, {"identities"})}
         [] what = "m5" ->
              {FThrow, FNotOk, FBadJson, RestNoPaths,
               RestPaths(<<PathRoot, PathOrders, PathRpc, PathParam, PathBare,
                           PathAuthUsers>>)}
         [] what = "m5b" ->
              {FThrow, FNotOk, FBadJson, GraphNoSchema, SampleGraphSchema,
               EmptyGraphSchema}
         [] what = "m7" ->
              {NoCommonTables,
               ProbeAnswers(COMMON_TABLES, {"orders", "users", "sessions"}, {"user"})}
         [] what = "columns" -> ColServers
         [] what = "rows" ->
              {Threw(FETCH_FAILED), Resolved(DataNull, DENIED, CountNull),
               Resolved(DataNull, JsNull, 5), Resolved(Data(<<>>), JsNull, 0),
               Resolved(Data(<<UserRow1>>), JsNull, CountNull),
               Resolved(Data(<<UserRow2, UserRow1>>), JsNull, 7),
               Resolved(DataObject(2), JsNull, CountNull),
               Resolved(Data(<<UserRow1, UserRow2, UserRow3, UserRow4>>), JsNull, 4)}
         [] what = "retry" ->
              {Threw(FETCH_FAILED), Resolved(DataNull, NO_RELATION, CountNull),
               Resolved(Data(<<UserRow3>>), JsNull, 1)}

-----------------------------------------------------------------------------
(* getSchemaInfo *)

\* where a routine continues when it returns
ReturnTo(routine, next) == IF top = routine THEN "done" ELSE next

\* discoveredTables = [...discoveredTables, ...found]
Contribute(found, next) ==
  /\ discoveredTables' = discoveredTables \o found
  /\ strategyOut' = Append(strategyOut, found)
  /\ pc' = next
  /\ UNCHANGED <<top, thrown, fastDiscovery, tableList, common, graphSchema>>
  /\ UNCHANGED <<extVars, maskVars, piiVars, stoVars, cfgVars, srvVars>>

\* discovery logs under the same convention as the run: fixed messages and
\* those that carry an error message or the name of what failed

\* a row list with a null row: mapping it throws inside the try block
HasNullRow(r) ==
  r.kind = "rows" /\ \E i \in 1..Len(r.rows) : r.rows[i].js = "null"

\* Methods 1a, 1b, 2: the else branch and the catch block both log
CatalogLog(r, label) ==
  CASE r.kind = "throw" -> <<label \o " failed">>
    [] r.kind = "rows" /\ Len(r.rows) > 0 -> <<>>
    [] OTHER -> <<label \o " failed or returned no results">>

\* the strategy's request failed, or its try block threw
QueryFailed(r) == r.kind \in {"throw", "error"}

Failed(cond, what) == IF cond THEN <<Failure(what, what)>> ELSE <<>>

\* the requests of the probes of a name list
ProbeRequests(prefix, names) ==
  [i \in 1..Len(names) |-> "from(" \o prefix \o names[i] \o ")"]

Method1a ==
  /\ pc = "m1a"
  /\ \E r \in Answers("m1a") :
       /\ Contribute(CatalogTables(r), "m1b")
       /\ Trace(<<"from(information_schema.tables)">>,
                <<"Fetching schema information...",
                  "Method 1a: Checking information_schema.tables (public schema)...">>,
                Failed(QueryFailed(r), "m1a"),
                CatalogLog(r, "public schema discovery"))

Method1b ==
  /\ pc = "m1b"
  /\ \E r \in Answers("m1b") :
       /\ Contribute(CatalogTables(r), "m2")
       /\ Trace(<<"from(information_schema.tables)">>,
                <<"Method 1b: Checking information_schema.tables (auth schema)...">>,
                Failed(QueryFailed(r), "m1b"),
                CatalogLog(r, "auth schema discovery"))

Method2 ==
  /\ pc = "m2"
  /\ \E r \in Answers("m2") :
       /\ Contribute(MappedTables(r, "pg"), "m3")
       /\ Trace(<<"from(pg_tables)">>,
                <<"Method 2: Checking pg_tables...">>,
                Failed(QueryFailed(r) \/ HasNullRow(r), "m2"),
                IF HasNullRow(r) THEN <<"pg_tables method failed">>
                ELSE CatalogLog(r, "pg_tables method"))

\* getTablesFromRPC catches what it throws and logs no failure
Method3 ==
  /\ pc = "m3"
  /\ \E r \in Answers("m3") :
       /\ Contribute(getTablesFromRPC(r), "m4")
       /\ Trace(<<"rpc(get_table_names)">>,
                <<"Method 3: Trying RPC functions...">>,
                Failed(QueryFailed(r) \/ r.kind = "notlist", "m3"),
                IF r.kind \in {"rows", "notlist"}
                THEN <<"Found tables via RPC function">> ELSE <<>>)

\* no else branch: an error value is not logged
Method4 ==
  /\ pc = "m4"
  /\ \E r \in Answers("m4") :
       /\ Contribute(MappedTables(r, "views"), "m4b")
       /\ Trace(<<"from(information_schema.views)">>,
                <<"Method 4: Checking for views...">>,
                Failed(QueryFailed(r) \/ HasNullRow(r), "m4"),
                IF r.kind = "throw" \/ HasNullRow(r)
                THEN <<"Views discovery failed">> ELSE <<>>)

\* a probe that fails is skipped without a message
Method4b ==
  /\ pc = "m4b"
  /\ \E a \in Answers("m4b") :
       /\ Contribute(discoverAuthTables(a), "m5")
       /\ Trace(ProbeRequests("auth.", authTableNames),
                <<"Method 4b: Testing known auth schema tables...">>,
                Failed(\E n \in Range(authTableNames) : a[n] # "ok", "m4b"),
                <<>>)

\* discoverViaRestAPI logs nothing
Method5 ==
  /\ pc = "m5"
  /\ \E r \in Answers("m5") :
       /\ Contribute(discoverViaRestAPI(r), "m5b")
       /\ Trace(<<"fetch(/rest/v1/)">>,
                <<"Method 5: Trying REST API introspection...">>,
                Failed(r.kind \in {"throw", "notok", "badjson"}, "m5"),
                <<>>)

\* what the graph endpoint answers
GraphAnswers == IF top = "discoverViaGraphQL" THEN {graphSchema} ELSE Answers("m5b")

Method5b ==
  /\ pc = "m5b"
  /\ \E r \in GraphAnswers :
       /\ Contribute(discoverViaGraphQL(r), ReturnTo("discoverViaGraphQL", "m7"))
       /\ Trace(<<"fetch(/graphql/v1)">>,
                <<"Method 5b: Trying GraphQL introspection...">>,
                Failed(r.kind \in {"throw", "notok", "badjson"}, "m5b"),
                CASE r.kind = "notok" -> <<"GraphQL endpoint not accessible or disabled">>
                  [] r.kind \in {"throw", "badjson"} ->
                       <<"GraphQL introspection failed (GraphQL may be disabled)">>
                  [] OTHER -> <<>>)

\* a brute force that runs in fast mode too
Method7Always ==
  /\ pc = "m7"
  /\ \E a \in Answers("m7") :
       /\ Contribute(discoverCommonTables(a), "merge")
       /\ Trace(ProbeRequests("", COMMON_TABLES),
                <<"Method 7: Discovering tables by testing common names...">>,
                Failed(\E n \in Range(COMMON_TABLES) : a[n] # "ok", "m7"),
                <<>>)

\* if (!fastDiscovery) discoverCommonTables(supabase, log)
Method7 ==
  /\ pc = "m7"
  /\ \/ /\ ~fastDiscovery
        /\ \E a \in Answers("m7") :
             /\ Contribute(discoverCommonTables(a), "merge")
             /\ Trace(ProbeRequests("", COMMON_TABLES),
                      <<"Method 7: Discovering tables by testing common names...">>,
                      Failed(\E n \in Range(COMMON_TABLES) : a[n] # "ok", "m7"),
                      <<>>)
     \/ /\ fastDiscovery
        /\ Contribute(<<>>, "merge")
        /\ Trace(<<>>, <<>>, <<>>,
                 <<"Skipping comprehensive table name discovery (fast mode enabled)">>)

\* the filter at the end of getSchemaInfo, and its return
Merge ==
  /\ pc = "merge"
  /\ \/ /\ MergeThrows(discoveredTables)
        /\ pc' = "threw"
        /\ thrown' = "TypeError"
        /\ UNCHANGED tableList
     \/ /\ ~MergeThrows(discoveredTables)
        /\ tableList' = UniqueTables(discoveredTables)
        /\ pc' = ReturnTo("getSchemaInfo", "r_tables")
        /\ UNCHANGED thrown
  /\ UNCHANGED <<top, fastDiscovery, discoveredTables, strategyOut, common, graphSchema>>
  /\ UNCHANGED <<extVars, maskVars, piiVars, stoVars, runVars, srvVars>>

-----------------------------------------------------------------------------
(* discoverCommonTables probe by probe: the probes of a batch are issued     *)
(* together by batch.map and complete in any order; Promise.all resolves     *)
(* when the last one has completed                                           *)

batchSize == 10

\* a place of batchResults whose probe has not completed
Pending == "<pending>"

\* COMMON_TABLES.slice(i, i + batchSize), as positions of COMMON_TABLES
BatchOf(i) ==
  {k \in 1..Len(COMMON_TABLES) : k > i /\ k <= i + batchSize}

\* a pause after every batch
PauseNeededAlways(i) == TRUE

\* if (i + batchSize < COMMON_TABLES.length) await setTimeout(100)
PauseNeeded(i) == i + batchSize < Len(COMMON_TABLES)

\* results kept in the order in which the probes complete
PlaceArrival(results, k, r) ==
  LET first == CHOOSE j \in 1..Len(results) :
                 results[j] = Pending /\ \A h \in 1..(j - 1) : results[h] # Pending
  IN [results EXCEPT ![first] = r]

\* Promise.all: the result of the k-th promise is the k-th result
Place(results, k, r) == [results EXCEPT ![k] = r]

\* what one probe returns: the name's descriptor, or null
ProbeResult(answers, name) == IF answers[name] = "ok" THEN name ELSE JsNull

CommonStep(next, reqs, before) ==
  /\ pc' = next
  /\ Trace(reqs, before, <<>>, <<>>)
  /\ UNCHANGED <<top, thrown, fastDiscovery, discoveredTables, strategyOut, tableList>>
  /\ UNCHANGED <<graphSchema, extVars, maskVars, piiVars, stoVars, cfgVars, srvVars>>

\* for (let i = 0; i < COMMON_TABLES.length; i += batchSize)
CommonLoop ==
  /\ pc = "b_loop"
  /\ IF common.i < Len(COMMON_TABLES)
     THEN /\ common' = [common EXCEPT
                          !.inFlight = BatchOf(common.i),
                          !.batchResults = [k \in 1..Cardinality(BatchOf(common.i)) |-> Pending]]
          /\ CommonStep("b_wait",
                        ProbeRequests("", SubSeq(COMMON_TABLES, common.i + 1,
                                                 common.i + Cardinality(BatchOf(common.i)))),
                        IF common.i = 0
                        THEN <<"Method 7: Discovering tables by testing common names...">>
                        ELSE <<>>)
     ELSE /\ UNCHANGED common
          /\ CommonStep("done", <<>>, <<>>)

\* a probe in flight completes: an error or an exception gives null
ProbeCompletes ==
  /\ pc = "b_wait"
  /\ \E k \in common.inFlight :
       common' = [common EXCEPT
                    !.inFlight = @ \ {k},
                    !.batchResults = Place(@, k - common.i,
                                           ProbeResult(common.answers, COMMON_TABLES[k]))]
  /\ CommonStep("b_wait", <<>>, <<>>)

\* valid = batchResults.filter((t) => t !== null); discoveredTables.push(...valid)
BatchDone ==
  /\ pc = "b_wait"
  /\ common.inFlight = {}
  /\ LET NotNull(r) == r # JsNull
         valid == SelectSeq(common.batchResults, NotNull)
     IN common' = [common EXCEPT
                     !.found = @ \o [j \in 1..Len(valid) |->
                                       Desc(valid[j], "public", "BASE TABLE")],
                     !.batches = @ + 1,
                     !.i = IF PauseNeeded(common.i) THEN @ ELSE @ + batchSize]
  /\ CommonStep(IF PauseNeeded(common.i) THEN "b_pause" ELSE "b_loop", <<>>, <<>>)

\* await new Promise((r) => setTimeout(r, 100))
Pause ==
  /\ pc = "b_pause"
  /\ common' = [common EXCEPT !.pauses = @ + 1, !.i = @ + batchSize]
  /\ CommonStep("b_loop", <<>>, <<>>)

commonTablesProbes == CommonLoop \/ ProbeCompletes \/ BatchDone \/ Pause

-----------------------------------------------------------------------------
(* getTableColumns *)

Req(op, ref) == [op |-> op, ref |-> ref]

\* `${tableSchema}.${tableName}`
FullName(t) == TableSchema(t) \o "." \o t.table_name

NO_KEYS == "Cannot convert undefined or null to object"

ColumnsStep(req, next, failed, after) ==
  /\ requests' = Append(requests, req)
  /\ pc' = next
  /\ Trace(<<>>, <<>>, IF failed THEN <<Failure(req.op, req.ref)>> ELSE <<>>, after)
  /\ UNCHANGED <<top, thrown, table, colServer, query, extracted>>
  /\ UNCHANGED <<discVars, maskVars, piiVars, stoVars, cfgVars, srvVars>>

\* information_schema.columns: only an exception is logged
ColumnsCatalog ==
  /\ pc = "c_catalog"
  /\ LET r == colServer.catalog
         req == Req("columns.catalog", table.table_name)
     IN IF r.kind = "rows" /\ Len(r.rows) > 0
        THEN /\ columns' = ColList(r.rows)
             /\ ColumnsStep(req, "x_cols", FALSE, <<>>)
        ELSE /\ UNCHANGED columns
             /\ ColumnsStep(req, "c_probe", QueryFailed(r),
                            IF r.kind = "throw"
                            THEN <<"information_schema.columns failed: " \o FETCH_FAILED>>
                            ELSE <<>>)

\* from(tableRef).select('*').limit(0)
ColumnsProbe ==
  /\ pc = "c_probe"
  /\ UNCHANGED columns
  /\ ColumnsStep(Req("columns.probe", TableRef(table)),
                 IF colServer.probe = "ok" THEN "c_sample" ELSE "c_rpc",
                 colServer.probe # "ok",
                 IF colServer.probe = "throw"
                 THEN <<"Sample data method failed: " \o FETCH_FAILED>> ELSE <<>>)

\* from(tableRef).select('*').limit(1); Object.keys(null) throws into the catch
ColumnsSample ==
  /\ pc = "c_sample"
  /\ LET r == colServer.sample
         req == Req("columns.sample", TableRef(table))
     IN IF r.kind = "rows" /\ Len(r.rows) > 0 /\ r.rows[1] # NullObject
        THEN /\ columns' = ColList(InferColumns(r.rows[1]))
             /\ ColumnsStep(req, "x_cols", FALSE, <<>>)
        ELSE /\ UNCHANGED columns
             /\ ColumnsStep(req, "c_rpc",
                            QueryFailed(r) \/ (r.kind = "rows" /\ Len(r.rows) > 0),
                            CASE r.kind = "throw" ->
                                   <<"Sample data method failed: " \o FETCH_FAILED>>
                              [] r.kind = "rows" /\ Len(r.rows) > 0 ->
                                   <<"Sample data method failed: " \o NO_KEYS>>
                              [] OTHER -> <<>>)

\* rpc('get_table_columns'): if (!error && data) return data; else return null
ColumnsRpc ==
  /\ pc = "c_rpc"
  /\ LET r == colServer.rpc
     IN /\ columns' = CASE r.kind = "rows" -> ColList(r.rows)
                        [] r.kind = "notlist" -> ColNotList
                        [] OTHER -> ColNull
        /\ ColumnsStep(Req("columns.rpc", table.table_name), "x_cols",
                       QueryFailed(r),
                       IF r.kind \in {"rows", "notlist"}
                       THEN <<"Found columns via RPC function">>
                       ELSE <<"Could not retrieve column information for "
                              \o FullName(table)>>)

getTableColumns == ColumnsCatalog \/ ColumnsProbe \/ ColumnsSample \/ ColumnsRpc

-----------------------------------------------------------------------------
(* extractTableData *)

ExtractStep(next, failures, after) ==
  /\ pc' = next
  /\ Trace(<<>>, <<>>, failures, after)
  /\ UNCHANGED <<top, thrown, table>>
  /\ UNCHANGED <<discVars, maskVars, piiVars, stoVars, cfgVars, srvVars>>

\* the result object; catalog shapes are resolved unless the type is a graph type
ExtractStart ==
  /\ pc = "x_start"
  /\ extracted' = EmptyResult(table)
  /\ requests' = <<>>
  /\ columns' = ColNull
  /\ query' = <<>>
  /\ \/ /\ table.table_type # "GRAPHQL_TYPE"
        /\ \E srv \in Answers("columns") : colServer' = srv
        /\ ExtractStep("c_catalog", <<>>, <<>>)
     \/ /\ table.table_type = "GRAPHQL_TYPE"
        /\ colServer' = <<>>
        /\ ExtractStep("x_query", <<>>, <<>>)

\* result.columns = columns
ExtractColumns ==
  /\ pc = "x_cols"
  /\ extracted' = [extracted EXCEPT !.columns = columns]
  /\ colServer' = <<>>
  /\ UNCHANGED <<columns, requests, query>>
  /\ ExtractStep("x_query", <<>>, <<>>)

\* a retry for every collection whose row query answered with an error
ShouldRetryAlways(t, a) == a.error # JsNull

\* if (error && table.graphql_type)
ShouldRetry(t, a) == a.error # JsNull /\ Truthy(t.graphql_type)

\* from(tableRef).select('*', { count: 'exact' })
ExtractQuery ==
  /\ pc = "x_query"
  /\ requests' = Append(requests, Req("rows", TableRef(table)))
  /\ \E a \in Answers("rows") :
       /\ query' = a
       /\ IF a.kind = "throw"
          THEN /\ extracted' = [extracted EXCEPT !.error = a.error]
               /\ ExtractStep(ReturnTo("extractTableData", "r_record"),
                              <<Failure("rows", TableRef(table))>>,
                              <<"Unexpected error: " \o a.error>>)
          ELSE /\ UNCHANGED extracted
               /\ IF ShouldRetry(table, a)
                  THEN ExtractStep("x_retry", <<>>,
                                   <<"Trying GraphQL type name: " \o table.graphql_type>>)
                  ELSE ExtractStep("x_finish", <<>>, <<>>)
  /\ UNCHANGED <<colServer, columns>>

\* from(table.graphql_type).select('*', { count: 'exact' })
ExtractRetry ==
  /\ pc = "x_retry"
  /\ requests' = Append(requests, Req("rows.graphql", table.graphql_type))
  /\ \E g \in Answers("retry") :
       IF g.kind = "throw"
       THEN /\ extracted' = [extracted EXCEPT !.error = g.error]
            /\ UNCHANGED query
            /\ ExtractStep(ReturnTo("extractTableData", "r_record"),
                           <<Failure("rows.graphql", table.graphql_type)>>,
                           <<"Unexpected error: " \o g.error>>)
       ELSE /\ query' = IF g.error = JsNull THEN g ELSE query
            /\ UNCHANGED extracted
            /\ ExtractStep("x_finish", <<>>, <<>>)
  /\ UNCHANGED <<colServer, columns>>

\* a total that prefers the number of rows returned to the reported count
TotalRowsFirst(q) ==
  IF ~q.data.isNull THEN q.data.length
  ELSE IF q.count # CountNull THEN q.count ELSE 0

\* count ?? data?.length ?? 0
Total(q) ==
  IF q.count # CountNull THEN q.count
  ELSE IF ~q.data.isNull THEN q.data.length ELSE 0

\* the sample rows, masked for auth.users alone
SampleRows(t, q) ==
  IF ~q.data.isNull /\ q.data.length > 0
  THEN LET sample == Slice(q.data.rows, SAMPLE_ROWS_COUNT)
       IN IF IsAuthUsers(t)
          THEN [i \in 1..Len(sample) |-> maskAuthUsersRow(sample[i])]
          ELSE sample
  ELSE <<>>

\* data.slice of a value that is no array, reached when data?.length > 0
SliceThrows(q) == ~q.data.isNull /\ q.data.length > 0 /\ ~q.data.isArray

\* the error branch, else the count and the sample; an exception after the
\* count was stored leaves the count in the result
ExtractFinish ==
  /\ pc = "x_finish"
  /\ extracted' =
       IF query.error # JsNull
       THEN [extracted EXCEPT !.error = query.error]
       ELSE IF SliceThrows(query)
       THEN [extracted EXCEPT !.rowCount = Total(query), !.error = NO_SLICE]
       ELSE [extracted EXCEPT !.rowCount = Total(query),
                              !.sampleRows = SampleRows(table, query)]
  /\ UNCHANGED <<colServer, columns, requests, query>>
  /\ ExtractStep(ReturnTo("extractTableData", "r_record"),
                 IF query.error # JsNull THEN <<Failure("rows", TableRef(table))>>
                 ELSE <<>>,
                 CASE query.error # JsNull -> <<"Error accessing table: " \o query.error>>
                   [] SliceThrows(query) -> <<"Unexpected error: " \o NO_SLICE>>
                   [] query.data.isNull \/ query.data.length = 0 ->
                        <<"No data found in this table">>
                   [] OTHER -> <<>>)

extractTableData ==
  \/ ExtractStart \/ ExtractColumns \/ ExtractQuery \/ ExtractRetry \/ ExtractFinish

-----------------------------------------------------------------------------
(* maskAuthUsersRow on its own *)

Mask ==
  /\ pc = "mask"
  /\ maskOut' = maskAuthUsersRow(maskRow)
  /\ pc' = "done"
  /\ UNCHANGED <<top, thrown, maskRow>>
  /\ UNCHANGED <<discVars, extVars, piiVars, stoVars, runVars, srvVars>>


-----------------------------------------------------------------------------
(* analyzeStorageBuckets: a listing is kept as runs of entries that are      *)
(* alike, each run a name and the number of entries named like it           *)

STORAGE_INDEX_LIMIT == 2000
STORAGE_PUBLIC_VERIFY_SAMPLE == 5
FIRST_PAGE_LIMIT == 500
NEXT_PAGE_LIMIT == 200
FOLDER_PROBES == 30
FOLDER_PAGE_LIMIT == 100

\* sizes of the listings the service answers with, besides the full pages
SmallBucket == 3
SmallFolders == 2
ShortPage == 50

Min(a, b) == IF a < b THEN a ELSE b

\* a bucket as listBuckets returns it
Bucket(id, name, public) == [id |-> id, name |-> name, public |-> public]

Avatars == Bucket("avatars", "avatars", "true")
Docs == Bucket("docs", JsUndefined, "false")
Media == Bucket("media", "media", "'true'")

\* { data, error } of listBuckets
BucketsError == [kind |-> "error", buckets |-> <<>>]
BucketsNull == [kind |-> "null", buckets |-> <<>>]
Buckets(list) == [kind |-> "data", buckets |-> list]

\* count entries of a listing named like name
Run(name, count) == [name |-> name, count |-> count]

NameFile == <<"a", ".", "p", "n", "g">>
NameFolder == <<"i", "m", "g">>

\* { data, error } of list(prefix, { limit }): n entries sorted by name, f of
\* them named like a folder and the others like a file
ListThrow == [kind |-> "throw", n |-> 0, entries |-> <<>>, message |-> FETCH_FAILED]
ListError == [kind |-> "error", n |-> 0, entries |-> <<>>, message |-> DENIED]
ListNull == [kind |-> "null", n |-> 0, entries |-> <<>>, message |-> JsNull]
ListData(n, f) ==
  [kind |-> "data", n |-> n,
   entries |-> SelectSeq(<<Run(NameFile, n - f), Run(NameFolder, f)>>,
                         LAMBDA r : r.count > 0),
   message |-> JsNull]

\* what verifying one public URL finds
UrlAnswers == {"reachable", "not ok", "fetch threw", "no url"}

StorageAnswers(what) ==
  CASE what = "buckets" ->
         IF top = "runExtraction"
         THEN {BucketsError, Buckets(<<Avatars>>)}
         ELSE {BucketsError, BucketsNull, Buckets(<<>>), Buckets(<<Avatars>>),
               Buckets(<<Docs, Avatars>>), Buckets(<<Avatars, Media>>)}
    [] what = "first" ->
         IF top = "runExtraction"
         THEN {ListError, ListData(SmallBucket, 0)}
         ELSE IF bucket.id = "avatars"
         THEN {ListThrow, ListError, ListNull, ListData(0, 0), ListData(1, 0),
               ListData(SmallBucket, SmallFolders),
               ListData(FIRST_PAGE_LIMIT, 0),
               ListData(FIRST_PAGE_LIMIT, FOLDER_PROBES + 1)}
         ELSE {ListError, ListData(0, 0), ListData(SmallBucket, SmallFolders)}
    [] what = "next" ->
         IF top = "runExtraction" \/ bucket.id # "avatars"
         THEN {ListData(0, 0)}
         ELSE {ListThrow, ListError, ListData(0, 0), ListData(ShortPage, 1),
               ListData(NEXT_PAGE_LIMIT, 0)}
    [] what = "url" ->
         IF top = "runExtraction" THEN {"reachable", "fetch threw"} ELSE UrlAnswers
    [] what = "folder" ->
         IF top = "runExtraction" \/ bucket.id # "avatars"
         THEN {ListError, ListData(FOLDER_PAGE_LIMIT, 0)}
         ELSE IF scan.folder < SmallFolders
         THEN {ListThrow, ListError, ListData(0, 0), ListData(FOLDER_PAGE_LIMIT, 1)}
         ELSE {ListThrow, ListData(0, 0)}

\* bucket.name || bucket.id
BucketName(b) == IF Truthy(b.name) THEN b.name ELSE b.id

\* bucket.public === true
IsPublic(b) == b.public = "true"

NoCheck == [present |-> FALSE, verified |-> 0, sampleSize |-> 0]
Check(verified, size) == [present |-> TRUE, verified |-> verified, sampleSize |-> size]

NewBucketOut(b) ==
  [name |-> BucketName(b), public |-> IsPublic(b), objectCount |-> 0,
   listError |-> JsUndefined, publicUrlCheck |-> NoCheck]

\* a request for a page of the root listing and the number of entries it got
Page(limit, offset, got) == [limit |-> limit, offset |-> offset, got |-> got]

\* the indexed objects: objects.length and the entries, count of them with
\* this path and name
Obj(path, name, count) == [path |-> path, name |-> name, count |-> count]
NoObjects == [n |-> 0, entries |-> <<>>]

\* listData.map((e) => ({ path: e.name, name: e.name, ... }))
RootObjects(r) ==
  [i \in 1..Len(r.entries) |-> Obj(r.entries[i].name, r.entries[i].name, r.entries[i].count)]

RECURSIVE RunTotal(_)
\* the number of entries of a run list
RunTotal(runs) == IF runs = <<>> THEN 0 ELSE Head(runs).count + RunTotal(Tail(runs))

RECURSIVE Take(_, _)
\* the first k entries of a run list
Take(runs, k) ==
  IF runs = <<>> \/ k <= 0 THEN <<>>
  ELSE IF Head(runs).count >= k THEN <<[Head(runs) EXCEPT !.count = k]>>
  ELSE <<Head(runs)>> \o Take(Tail(runs), k - Head(runs).count)

RECURSIVE EntryAt(_, _)
\* the k-th entry of a run list
EntryAt(runs, k) ==
  IF Head(runs).count >= k THEN Head(runs) ELSE EntryAt(Tail(runs), k - Head(runs).count)

\* a folder listing requested with the index at a size
FolderRequest(prefix, size) == [prefix |-> prefix, size |-> size]

\* the last public URL verified and what came of it
Fetched(path, answer) == [path |-> path, answer |-> answer]

NewScan ==
  [offset |-> 0, possibleFolders |-> <<>>, folder |-> 0, folderRequests |-> <<>>,
   sample |-> 0, verified |-> 0, fetched |-> <<>>, pages |-> <<>>]

StorageStep(next, reqs, failures, after) ==
  /\ pc' = next
  /\ Trace(reqs, <<>>, failures, after)
  /\ UNCHANGED <<top, fastDiscovery>>
  /\ UNCHANGED <<discVars, extVars, maskVars, piiVars, cfgVars, srvVars>>

\* an exception of a storage request is not caught in analyzeStorageBuckets
StorageThrows ==
  /\ thrown' = "Error"
  /\ UNCHANGED stoVars
  /\ StorageStep("threw", <<>>, <<>>, <<>>)

\* a listing of the bucket being scanned that answered with an error
ListFailed(r, what) ==
  IF r.kind = "error" THEN <<Failure(what, BucketName(bucket))>> ELSE <<>>

\* supabase.storage.listBuckets()
ListBuckets ==
  /\ pc = "s_list"
  /\ \E r \in StorageAnswers("buckets") :
       /\ out' = <<>>
       /\ buckets' = r.buckets
       /\ UNCHANGED <<thrown, bucket, objects, scan, bucketOut>>
       /\ StorageStep(IF r.kind = "data" /\ Len(r.buckets) > 0
                      THEN "s_bucket"
                      ELSE ReturnTo("analyzeStorageBuckets", "r_storage"),
                      <<"storage.listBuckets">>,
                      IF r.kind = "error"
                      THEN <<Failure("storage.listBuckets", JsUndefined)>> ELSE <<>>,
                      <<"Storage bucket security analysis...">>
                      \o CASE r.kind = "error" ->
                               <<"Could not list storage buckets: " \o DENIED>>
                            [] r.kind = "data" /\ Len(r.buckets) > 0 -> <<>>
                            [] OTHER ->
                               <<"No storage buckets found (or no permission to list buckets).">>)

\* for (const bucket of buckets)
NextBucket ==
  /\ pc = "s_bucket"
  /\ IF buckets = <<>>
     THEN /\ UNCHANGED <<thrown, stoVars>>
          /\ StorageStep(ReturnTo("analyzeStorageBuckets", "r_storage"),
                         <<>>, <<>>, <<"Storage bucket analysis completed.">>)
     ELSE /\ bucket' = Head(buckets)
          /\ bucketOut' = NewBucketOut(Head(buckets))
          /\ objects' = NoObjects
          /\ scan' = NewScan
          /\ UNCHANGED <<thrown, buckets, out>>
          /\ StorageStep("s_first", <<>>, <<>>, <<>>)


\* list('', { limit: 500 })
FirstPage ==
  /\ pc = "s_first"
  /\ \E r \in StorageAnswers("first") :
       CASE r.kind = "throw" -> StorageThrows
         [] r.kind = "error" ->
              /\ bucketOut' = [bucketOut EXCEPT !.listError = r.message]
              /\ scan' = [scan EXCEPT !.pages = <<Page(FIRST_PAGE_LIMIT, 0, 0)>>]
              /\ UNCHANGED <<thrown, buckets, bucket, objects, out>>
              /\ StorageStep("s_verify", <<>>, ListFailed(r, "storage.list"),
                             <<"List objects: " \o r.message>>)
         [] r.kind = "data" /\ r.n > 0 ->
              /\ objects' = [n |-> r.n, entries |-> RootObjects(r)]
              /\ scan' = [scan EXCEPT !.offset = FIRST_PAGE_LIMIT,
                                      !.pages = <<Page(FIRST_PAGE_LIMIT, 0, r.n)>>]
              /\ UNCHANGED <<thrown, buckets, bucket, bucketOut, out>>
              /\ StorageStep("s_page", <<>>, <<>>, <<>>)
         [] OTHER ->
              /\ scan' = [scan EXCEPT !.pages = <<Page(FIRST_PAGE_LIMIT, 0, 0)>>]
              /\ UNCHANGED <<thrown, buckets, bucket, objects, bucketOut, out>>
              /\ StorageStep("s_verify", <<>>, <<>>,
                             <<"Indexed objects: 0 (empty or no list permission).">>)

\* while (objects.length < STORAGE_INDEX_LIMIT) list('', { limit: 200, offset })
NextPage ==
  /\ pc = "s_page"
  /\ IF objects.n < STORAGE_INDEX_LIMIT
     THEN \E r \in StorageAnswers("next") :
            CASE r.kind = "throw" -> StorageThrows
              [] r.kind = "data" /\ r.n > 0 ->
                   /\ objects' = [n |-> objects.n + r.n,
                                   entries |-> objects.entries \o RootObjects(r)]
                   /\ scan' = [scan EXCEPT !.offset = @ + r.n,
                                           !.pages = Append(@, Page(NEXT_PAGE_LIMIT,
                                                                    scan.offset, r.n))]
                   /\ UNCHANGED <<thrown, buckets, bucket, bucketOut, out>>
                   /\ StorageStep(IF r.n < NEXT_PAGE_LIMIT THEN "s_filter" ELSE "s_page",
                                  <<>>, <<>>, <<>>)
              [] OTHER ->
                   /\ scan' = [scan EXCEPT !.pages = Append(@, Page(NEXT_PAGE_LIMIT,
                                                                    scan.offset, 0))]
                   /\ UNCHANGED <<thrown, buckets, bucket, objects, bucketOut, out>>
                   /\ StorageStep("s_filter", <<>>,
                                  ListFailed(r, "storage.list.next"), <<>>)
     ELSE /\ UNCHANGED <<thrown, stoVars>>
          /\ StorageStep("s_filter", <<>>, <<>>, <<>>)

\* every path passes for a folder
IsPossibleFolderAlways(path) == TRUE

\* !o.path.includes('.') && o.path.length > 0
IsPossibleFolder(path) == ~Includes(path, ".") /\ Len(path) > 0

\* const possibleFolders = objects.filter(...)
FilterFolders ==
  /\ pc = "s_filter"
  /\ scan' = [scan EXCEPT !.possibleFolders =
                 SelectSeq(objects.entries, LAMBDA o : IsPossibleFolder(o.path))]
  /\ UNCHANGED <<thrown, buckets, bucket, objects, bucketOut, out>>
  /\ StorageStep("s_folders", <<>>, <<>>, <<>>)

\* possibleFolders.slice(0, 30).length
PossibleFolders == Min(RunTotal(scan.possibleFolders), FOLDER_PROBES)

\* entries of a folder listing pushed until the limit is reached
Pushed(n) == IF objects.n >= STORAGE_INDEX_LIMIT THEN 0
             ELSE Min(n, STORAGE_INDEX_LIMIT - objects.n)

\* objects.push({ path: `${folder.path}/${e.name}`, name: e.name, ... })
FolderObjects(folder, r) ==
  LET pushed == Take(r.entries, Pushed(r.n))
  IN [i \in 1..Len(pushed) |->
        Obj(folder.path \o <<"/">> \o pushed[i].name, pushed[i].name, pushed[i].count)]

\* for (const folder of possibleFolders.slice(0, 30)) list(folder.path, { limit: 100 })
FolderList ==
  /\ pc = "s_folders"
  /\ IF scan.folder < PossibleFolders /\ objects.n < STORAGE_INDEX_LIMIT
     THEN \E r \in StorageAnswers("folder") :
            CASE r.kind = "throw" -> StorageThrows
              [] OTHER ->
                   LET folder == EntryAt(scan.possibleFolders, scan.folder + 1)
                   IN
                   /\ objects' = [n |-> objects.n + Pushed(r.n),
                                   entries |-> objects.entries \o FolderObjects(folder, r)]
                   /\ scan' = [scan EXCEPT !.folder = @ + 1,
                                           !.folderRequests =
                                              Append(@, FolderRequest(folder.path, objects.n))]
                   /\ UNCHANGED <<thrown, buckets, bucket, bucketOut, out>>
                   /\ StorageStep("s_folders", <<>>,
                                  ListFailed(r, "storage.list.folder"), <<>>)
     ELSE /\ bucketOut' = [bucketOut EXCEPT !.objectCount = objects.n]
          /\ UNCHANGED <<thrown, buckets, bucket, objects, scan, out>>
          /\ StorageStep("s_verify", <<>>, <<>>, <<>>)

\* a check made for every public bucket, indexed objects or not
ShouldVerifyPublicOnly == bucketOut.public

\* if (isPublic && objects.length > 0)
ShouldVerify == bucketOut.public /\ objects.n > 0

\* every indexed object is sampled
SampleSizeAll == objects.n

\* objects.slice(0, STORAGE_PUBLIC_VERIFY_SAMPLE).length
SampleSize == Min(objects.n, STORAGE_PUBLIC_VERIFY_SAMPLE)

\* every URL that was resolved counts
ReachableIfResolved(a) == a # "no url"

\* urlData?.publicUrl && (await verifyPublicUrlReachable(urlData.publicUrl)):
\* res.ok of the fetch, false if the fetch throws
Reachable(a) == a = "reachable"

\* for (const obj of sampleForVerify) ... verified += 1
VerifyUrl ==
  /\ pc = "s_verify"
  /\ ShouldVerify
  /\ scan.sample < SampleSize
  /\ \E a \in StorageAnswers("url") :
       scan' = [scan EXCEPT !.sample = @ + 1,
                            !.verified = IF Reachable(a) THEN @ + 1 ELSE @,
                            !.fetched = Fetched(EntryAt(objects.entries, scan.sample + 1).path, a)]
  /\ UNCHANGED <<thrown, buckets, bucket, objects, bucketOut, out>>
  /\ StorageStep("s_verify", <<>>, <<>>, <<>>)

\* bucketOut.publicUrlCheck = { verified, sampleSize }; out.buckets.push(bucketOut)
PushBucket ==
  /\ pc = "s_verify"
  /\ ShouldVerify => scan.sample = SampleSize
  /\ LET checked == IF ShouldVerify
                    THEN [bucketOut EXCEPT !.publicUrlCheck = Check(scan.verified, SampleSize)]
                    ELSE bucketOut
     IN /\ bucketOut' = checked
        /\ out' = Append(out, checked)
  /\ buckets' = Tail(buckets)
  /\ UNCHANGED <<thrown, bucket, objects, scan>>
  /\ StorageStep("s_bucket", <<>>, <<>>,
                 IF ShouldVerify /\ scan.verified > 0
                 THEN <<"Bucket is exposed publicly; content can be accessed by anyone with object paths.">>
                 ELSE <<>>)

analyzeStorageBuckets ==
  \/ ListBuckets \/ NextBucket \/ FirstPage \/ NextPage \/ FilterFolders \/ FolderList
  \/ VerifyUrl \/ PushBucket

-----------------------------------------------------------------------------
(* detectPII. The characters of a string are looked up in a table of the    *)
(* strings that occur as sample values; all of them are ASCII               *)

MAX_EXAMPLES == 5

Chars(s) ==
  CASE s = "" -> <<>>
    [] s = "  " -> <<" ", " ">>
    [] s = "Ann" -> <<"A", "n", "n">>
    [] s = "A" -> <<"A">>
    [] s = "O'Neil-Smith" -> <<"O", "'", "N", "e", "i", "l", "-", "S", "m", "i", "t", "h">>
    [] s = "R2D2" -> <<"R", "2", "D", "2">>
    [] s = "1990-01-01" -> <<"1", "9", "9", "0", "-", "0", "1", "-", "0", "1">>
    [] s = " 1990-01-01 " -> <<" ", "1", "9", "9", "0", "-", "0", "1", "-", "0", "1", " ">>
    [] s = "31/12/99" -> <<"3", "1", "/", "1", "2", "/", "9", "9">>
    [] s = "not-a-date" -> <<"n", "o", "t", "-", "a", "-", "d", "a", "t", "e">>
    [] s = "42" -> <<"4", "2">>
    [] s = "07" -> <<"0", "7">>
    [] s = "120" -> <<"1", "2", "0">>
    [] s = "121" -> <<"1", "2", "1">>
    [] s = "+44 20 7946 0958" ->
         <<"+", "4", "4", " ", "2", "0", " ", "7", "9", "4", "6", " ", "0", "9", "5", "8">>
    [] s = "12345" -> <<"1", "2", "3", "4", "5">>
    [] s = " Paris " -> <<" ", "P", "a", "r", "i", "s", " ">>
    [] s = "Paris" -> <<"P", "a", "r", "i", "s">>
    [] s = "Rome" -> <<"R", "o", "m", "e">>
    [] s = "Oslo" -> <<"O", "s", "l", "o">>
    [] s = "Bern" -> <<"B", "e", "r", "n">>
    [] s = "Kyiv" -> <<"K", "y", "i", "v">>
    [] s = "Riga" -> <<"R", "i", "g", "a">>
    [] s = "DOB" -> <<"D", "O", "B">>
    [] s = "City" -> <<"C", "i", "t", "y">>
    [] OTHER -> <<s>>   \* a lower-case column name, kept whole

DigitChars == {"0", "1", "2", "3", "4", "5", "6", "7", "8", "9"}
SpaceChars == {" ", "\t", "\n"}
LetterChars == Range(UpperChars) \cup Range(LowerChars)

AllIn(cs, class) == \A i \in 1..Len(cs) : cs[i] \in class

RECURSIVE TrimStart(_)
TrimStart(cs) ==
  IF cs # <<>> /\ Head(cs) \in SpaceChars THEN TrimStart(Tail(cs)) ELSE cs

RECURSIVE TrimEnd(_)
TrimEnd(cs) ==
  IF cs # <<>> /\ cs[Len(cs)] \in SpaceChars
  THEN TrimEnd(SubSeq(cs, 1, Len(cs) - 1)) ELSE cs

\* String.prototype.trim
Trim(cs) == TrimEnd(TrimStart(cs))

\* /^[a-zA-Z\u00C0-\u024F\s'-]{2,80}$/ (no sample value has a letter beyond ASCII)
NamePattern(cs) ==
  Len(cs) \in 2..80 /\ AllIn(cs, LetterChars \cup SpaceChars \cup {"'", "-"})

\* /^\d{4}-\d{2}-\d{2}$|^\d{1,2}[\/\-]\d{1,2}[\/\-]\d{2,4}$/
DobPattern(cs) ==
  \/ /\ Len(cs) = 10
     /\ cs[5] = "-" /\ cs[8] = "-"
     /\ \A i \in {1, 2, 3, 4, 6, 7, 9, 10} : cs[i] \in DigitChars
  \/ \E i, j \in 1..Len(cs) :
       /\ i < j
       /\ cs[i] \in {"/", "-"} /\ cs[j] \in {"/", "-"}
       /\ (i - 1) \in 1..2 /\ (j - i - 1) \in 1..2 /\ (Len(cs) - j) \in 2..4
       /\ \A k \in 1..Len(cs) : k \notin {i, j} => cs[k] \in DigitChars

\* /^\s*(?:1[0-1]\d|[1-9]?\d|120)\s*$/
AgePattern(cs) ==
  LET core == Trim(cs)
  IN \/ Len(core) = 1 /\ core[1] \in DigitChars
     \/ Len(core) = 2 /\ core[1] \in DigitChars \ {"0"} /\ core[2] \in DigitChars
     \/ Len(core) = 3 /\ core[1] = "1" /\ core[2] \in {"0", "1"} /\ core[3] \in DigitChars
     \/ core = <<"1", "2", "0">>

\* /^[\d\s\-+()]{10,20}$|^\+?[\d\s\-()]{10,}$/
TelephonePattern(cs) ==
  \/ Len(cs) \in 10..20 /\ AllIn(cs, DigitChars \cup SpaceChars \cup {"-", "+", "(", ")"})
  \/ LET rest == IF cs # <<>> /\ cs[1] = "+" THEN Tail(cs) ELSE cs
     IN Len(rest) >= 10 /\ AllIn(rest, DigitChars \cup SpaceChars \cup {"-", "(", ")"})

PiiRule(type, names, hasPattern) ==
  [piiType |-> type, columns |-> names, valuePattern |-> hasPattern]

PII_RULES ==
  <<PiiRule("name", {"name", "first_name", "last_name", "full_name", "customer_name",
                     "user_name", "display_name", "contact_name", "recipient_name",
                     "sender_name"}, TRUE),
    PiiRule("dob", {"dob", "date_of_birth", "birth_date", "birthdate", "birth_day",
                    "dateofbirth"}, TRUE),
    PiiRule("age", {"age", "user_age", "customer_age"}, TRUE),
    PiiRule("address", {"address", "street", "address_line", "city", "postcode", "zip",
                        "zipcode", "postal_code", "country", "state", "region"}, FALSE),
    PiiRule("telephone", {"phone", "telephone", "mobile", "tel", "cell", "contact_number",
                          "phone_number", "mobile_number"}, TRUE)>>

\* a value pattern that every string matches
AnyValue(rule, cs) == TRUE

\* rule.valuePattern.test(str)
ValuePatternTest(rule, cs) ==
  CASE rule.piiType = "name" -> NamePattern(cs)
    [] rule.piiType = "dob" -> DobPattern(cs)
    [] rule.piiType = "age" -> AgePattern(cs)
    [] rule.piiType = "telephone" -> TelephonePattern(cs)
    [] OTHER -> FALSE

\* a column pattern without the i flag
ColumnPatternTestExact(rule, colName) == colName \in rule.columns

\* rule.columnPattern.test(colName): one of the names, whatever the case
ColumnPatternTest(rule, colName) ==
  LET cs == Chars(colName)
  IN Str([i \in 1..Len(cs) |-> ToLower(cs[i])]) \in rule.columns

\* tableColumns.map of a truthy value that is no array throws a TypeError
PiiThrows(tableColumns) == tableColumns.kind = "notlist"

RECURSIVE Distinct(_)
\* Array.from(new Set(...)): the first occurrence of each value, in order
Distinct(s) ==
  IF s = <<>> THEN <<>>
  ELSE LET r == Distinct(SubSeq(s, 1, Len(s) - 1))
       IN IF s[Len(s)] \in Range(r) THEN r ELSE Append(r, s[Len(s)])

\* String(v).trim() of the examined values of a column, row by row
Trimmed(rows, colName) ==
  LET seen == SelectSeq([i \in 1..Len(rows) |-> Get(rows[i], colName)],
                        LAMBDA v : v \notin {JsNull, JsUndefined, ""})
  IN [i \in 1..Len(seen) |-> Trim(Chars(seen[i]))]

\* the finding of one rule and one matching column
Finding(rule, colName, sampleRows) ==
  LET strs == IF sampleRows.isArray THEN Trimmed(sampleRows.rows, colName) ELSE <<>>
      Hit(cs) == rule.valuePattern /\ ValuePatternTest(rule, cs)
      Kept(cs) == Hit(cs) \/ ~rule.valuePattern
      values == Distinct(SelectSeq(strs, Kept))
  IN [column |-> colName,
      piiType |-> rule.piiType,
      confidence |-> IF \E i \in 1..Len(strs) : Hit(strs[i])
                     THEN "value" ELSE "column_name",
      examples |-> [i \in 1..Min(Len(values), MAX_EXAMPLES) |-> Str(values[i])]]

\* the two loops the other way round: columns first, rules second
detectPIIByColumn(tableColumns, sampleRows) ==
  LET columnNames == [i \in 1..Len(tableColumns.cols) |-> tableColumns.cols[i].column_name]
      Found(c) ==
        LET Matches(r) == ColumnPatternTest(r, c)
            hits == SelectSeq(PII_RULES, Matches)
        IN [i \in 1..Len(hits) |-> Finding(hits[i], c, sampleRows)]
  IN Flatten([c \in 1..Len(columnNames) |-> Found(columnNames[c])])

\* one finding per rule and matching column, rules first, columns second
detectPII(tableColumns, sampleRows) ==
  LET columnNames == [i \in 1..Len(tableColumns.cols) |-> tableColumns.cols[i].column_name]
      Found(rule) ==
        LET Matches(c) == ColumnPatternTest(rule, c)
            hits == SelectSeq(columnNames, Matches)
        IN [i \in 1..Len(hits) |-> Finding(rule, hits[i], sampleRows)]
  IN Flatten([r \in 1..Len(PII_RULES) |-> Found(PII_RULES[r])])

\* detectPII(tableColumns, sampleRows) on its own
Detect ==
  /\ pc = "pii"
  /\ IF PiiThrows(piiColumns)
     THEN thrown' = "TypeError" /\ pc' = "threw" /\ UNCHANGED findings
     ELSE /\ findings' = detectPII(piiColumns, piiRows)
          /\ pc' = "done"
          /\ UNCHANGED thrown
  /\ UNCHANGED <<top, piiColumns, piiRows>>
  /\ UNCHANGED <<discVars, extVars, maskVars, stoVars, runVars, srvVars>>

-----------------------------------------------------------------------------
(* runExtraction *)

RunConfig(url, key, email, password, token, fast, exportSql) ==
  [url |-> url, key |-> key, email |-> email, password |-> password,
   token |-> token, fastDiscovery |-> fast, exportSql |-> exportSql]

PROJECT_URL == "https://project.supabase.co"

RunConfigs ==
  {RunConfig(PROJECT_URL, "anon-key", JsUndefined, JsUndefined, JsUndefined, FALSE, JsUndefined),
   RunConfig(PROJECT_URL, "", JsUndefined, JsUndefined, JsUndefined, FALSE, JsUndefined),
   RunConfig(PROJECT_URL, "anon-key", JsUndefined, JsUndefined, "jwt", FALSE, JsUndefined),
   RunConfig(PROJECT_URL, "anon-key", "a@b.com", "secret", "jwt", FALSE, JsUndefined),
   RunConfig(PROJECT_URL, "anon-key", "a@b.com", "secret", JsUndefined, TRUE, JsUndefined),
   RunConfig(PROJECT_URL, "anon-key", "a@b.com", JsUndefined, JsUndefined, FALSE, "schema.sql")}

\* authenticateUser's return value: null, or an object with a user
AuthNull == [kind |-> "null", email |-> JsUndefined]
AuthUser(email) == [kind |-> "user", email |-> email]

\* what auth.getUser() or auth.signInWithPassword() does
AuthAnswer(kind, email) == [kind |-> kind, email |-> email]

AuthAnswers ==
  {AuthAnswer("throw", JsUndefined), AuthAnswer("error", JsUndefined),
   AuthAnswer("no user", JsUndefined), AuthAnswer("user", "a@b.com")}

\* what auth.getSession() does
SessionAnswers == {"session", "no session", "error", "throw"}

authenticateUser(email, password, token, a) ==
  IF Truthy(token)
  THEN IF a.kind = "user" THEN AuthUser(a.email) ELSE AuthNull
  ELSE IF ~Truthy(email) \/ ~Truthy(password) THEN AuthNull
  ELSE IF a.kind \in {"throw", "error"} THEN AuthNull
  ELSE AuthUser(a.email)

NewResult ==
  [tables |-> <<>>, storage |-> <<>>,
   auth |-> [used |-> FALSE, userEmail |-> JsUndefined],
   exportSqlPath |-> JsUndefined]

\* the record of one collection
RecordOf(e) ==
  [table_name |-> e.table_name, table_schema |-> e.table_schema,
   table_type |-> e.table_type, graphql_type |-> e.graphql_type,
   columns |-> e.columns, rowCount |-> e.rowCount, sampleRows |-> e.sampleRows,
   error |-> e.error, piiFindings |-> detectPII(e.columns, Data(e.sampleRows))]

\* the messages kept in discoveryLog, without their pictograms: the fixed
\* ones and those that carry an error message, a retry type name or the name
\* of the collection that failed; the lines that report a count or list what
\* was found are not kept
LOG_BOTH == "Both token and email/password provided - using bearer token (takes precedence)"
AUTH_ERROR == "Invalid login credentials"

\* the request authenticateUser issues
AuthCallPasswordFirst(email, password, token) ==
  IF Truthy(email) /\ Truthy(password) THEN <<"auth.signInWithPassword">>
  ELSE IF Truthy(token) THEN <<"auth.getUser">> ELSE <<>>

AuthCall(email, password, token) ==
  IF Truthy(token) THEN <<"auth.getUser">>
  ELSE IF ~Truthy(email) \/ ~Truthy(password) THEN <<>>
  ELSE <<"auth.signInWithPassword">>

\* what authenticateUser logs
AuthLog(email, password, token, a) ==
  IF Truthy(token)
  THEN (IF Truthy(email) \/ Truthy(password) THEN <<LOG_BOTH>> ELSE <<>>)
       \o <<"Authenticating with bearer token...">>
       \o CASE a.kind = "error" -> <<"Bearer token authentication failed: " \o AUTH_ERROR>>
            [] a.kind = "no user" ->
                 <<"Bearer token authentication failed: No user found with this token">>
            [] a.kind = "throw" -> <<"Bearer token authentication error: " \o FETCH_FAILED>>
            [] OTHER -> <<"Bearer token authentication successful">>
  ELSE IF ~Truthy(email) \/ ~Truthy(password)
  THEN <<"No credentials provided - proceeding with anonymous access">>
  ELSE <<"Authenticating with email/password...">>
       \o CASE a.kind = "error" -> <<"Email/password authentication failed: " \o AUTH_ERROR>>
            [] a.kind = "throw" -> <<"Email/password authentication error: " \o FETCH_FAILED>>
            [] OTHER -> <<"Email/password authentication successful">>

\* what checkConnection logs
ConnectionLog(a) ==
  <<"Testing Supabase connection...">>
  \o CASE a = "throw" -> <<"Connection failed: " \o FETCH_FAILED>>
       [] a = "error" ->
            <<"Session check failed, but this is normal for anonymous access",
              "Connection established", "Anonymous access">>
       [] a = "session" -> <<"Connection established">>
       [] OTHER -> <<"Connection established", "Anonymous access">>

RunStep(next) ==
  /\ pc' = next
  /\ UNCHANGED <<top, config, discoveredTables, strategyOut, tableList, common, graphSchema>>
  /\ UNCHANGED <<colServer, columns, requests, query, extracted>>
  /\ UNCHANGED <<maskVars, piiVars, stoVars, srvVars>>

RunThrows(error) ==
  /\ thrown' = error
  /\ RunStep("threw")

\* a run that does not look at its configuration
StartUnchecked ==
  /\ pc = "r_start"
  /\ result' = NewResult
  /\ discoveryLog' = <<"Supabase Data Extractor Starting...">>
  /\ UNCHANGED <<thrown, fastDiscovery, table, authResult, tableIdx, calls, recovered>>
  /\ RunStep("r_connect")

\* if (!config.url || !config.key) throw
Start ==
  /\ pc = "r_start"
  /\ result' = NewResult
  /\ UNCHANGED <<fastDiscovery, table, authResult, tableIdx, calls, recovered>>
  /\ IF ~Truthy(config.url) \/ ~Truthy(config.key)
     THEN /\ UNCHANGED discoveryLog
          /\ RunThrows("Missing required parameters: url and key")
     ELSE /\ discoveryLog' = <<"Supabase Data Extractor Starting...">>
          /\ UNCHANGED thrown
          /\ RunStep("r_connect")

\* checkConnection: false only when getSession throws
CheckConnection ==
  /\ pc = "r_connect"
  /\ calls' = Append(calls, "auth.getSession")
  /\ UNCHANGED <<fastDiscovery, table, authResult, tableIdx, result, recovered>>
  /\ \E a \in SessionAnswers :
       /\ discoveryLog' = discoveryLog \o ConnectionLog(a)
       /\ IF a = "throw"
          THEN RunThrows("Connection failed")
          ELSE UNCHANGED thrown /\ RunStep("r_auth")

\* authenticateUser, then getSchemaInfo(supabase, config.fastDiscovery ?? false, log)
Authenticate ==
  /\ pc = "r_auth"
  /\ calls' = calls \o AuthCall(config.email, config.password, config.token)
  /\ \E a \in AuthAnswers :
       LET user == authenticateUser(config.email, config.password, config.token, a)
       IN /\ authResult' = user
          /\ discoveryLog' =
               discoveryLog \o AuthLog(config.email, config.password, config.token, a)
          /\ result' = IF user.kind = "null" THEN result
                       ELSE [result EXCEPT !.auth = [used |-> TRUE, userEmail |-> user.email]]
  /\ fastDiscovery' = config.fastDiscovery
  /\ UNCHANGED <<thrown, table, tableIdx, recovered>>
  /\ RunStep("m1a")

\* a run that goes on to the extraction loop whatever was discovered
AfterDiscoveryLoop(list, exportSql) ==
  IF Truthy(exportSql) THEN "r_export" ELSE "r_table"

\* where the run goes once getSchemaInfo returned
AfterDiscovery(list, exportSql) ==
  IF Len(list) = 0 THEN "done"
  ELSE IF Truthy(exportSql) THEN "r_export" ELSE "r_table"

\* if (!tableList?.length) return result
Tables ==
  /\ pc = "r_tables"
  /\ tableIdx' = 1
  /\ discoveryLog' =
       IF Len(tableList) = 0 THEN Append(discoveryLog, "No tables found or accessible")
       ELSE IF Truthy(config.exportSql)
       THEN Append(discoveryLog, "Generating SQL schema export...")
       ELSE Append(discoveryLog, "Starting data extraction...")
  /\ UNCHANGED <<thrown, fastDiscovery, table, authResult, result, calls, recovered>>
  /\ RunStep(AfterDiscovery(tableList, config.exportSql))

\* generateSQLSchema groups the collections by schema, in the order in which
\* the schemas first occur
BySchema(tables) ==
  LET schemas == [i \in 1..Len(tables) |-> TableSchema(tables[i])]
      first == SelectSeq([i \in 1..Len(tables) |->
                            IF \E h \in 1..(i - 1) : schemas[h] = schemas[i]
                            THEN JsNull ELSE schemas[i]],
                         LAMBDA x : x # JsNull)
  IN Flatten([k \in 1..Len(first) |->
                SelectSeq(tables, LAMBDA t : TableSchema(t) = first[k])])

\* the column resolution generateSQLSchema asks for a collection
ExportRequest(t) == "columns(" \o FullName(t) \o ")"

\* for (const table of schemaTables) await getTableColumns(...): one
\* resolution per collection; the requests within a resolution are not kept
ExportRequests(tables) ==
  LET grouped == BySchema(tables)
  IN [i \in 1..Len(grouped) |-> ExportRequest(grouped[i])]

\* generateSQLSchema catches its errors and its text is not kept; writing
\* the file with fs.writeFile succeeds or fails
ExportSql ==
  /\ pc = "r_export"
  /\ \E written \in BOOLEAN :
       /\ result' = IF written THEN [result EXCEPT !.exportSqlPath = config.exportSql]
                    ELSE result
       /\ discoveryLog' =
            discoveryLog
            \o <<IF written THEN "SQL schema exported to: " \o config.exportSql
                 ELSE "Error writing SQL file: " \o "EACCES">>
            \o <<"Starting data extraction...">>
  /\ calls' = calls \o ExportRequests(tableList) \o <<"fs.writeFile">>
  /\ UNCHANGED <<thrown, fastDiscovery, table, authResult, tableIdx, recovered>>
  /\ RunStep("r_table")

\* for (const table of tableList) extractTableData(supabase, table, log)
NextTable ==
  /\ pc = "r_table"
  /\ UNCHANGED <<thrown, fastDiscovery, authResult, tableIdx, result, calls, recovered>>
  /\ IF tableIdx > Len(tableList)
     THEN /\ discoveryLog' = Append(discoveryLog, "Data extraction completed!")
          /\ UNCHANGED table
          /\ RunStep("s_list")
     ELSE /\ UNCHANGED discoveryLog
          /\ table' = tableList[tableIdx]
          /\ RunStep("x_start")

\* row.piiFindings = detectPII(...); result.tables.push(row)
Record ==
  /\ pc = "r_record"
  /\ UNCHANGED <<fastDiscovery, table, authResult, discoveryLog, calls, recovered>>
  /\ IF PiiThrows(extracted.columns)
     THEN /\ UNCHANGED <<tableIdx, result>>
          /\ RunThrows("TypeError")
     ELSE /\ result' = [result EXCEPT !.tables = Append(@, RecordOf(extracted))]
          /\ tableIdx' = tableIdx + 1
          /\ UNCHANGED thrown
          /\ RunStep("r_table")

\* result.storage = await analyzeStorageBuckets(supabase, log)
Storage ==
  /\ pc = "r_storage"
  /\ result' = [result EXCEPT !.storage = out]
  /\ UNCHANGED <<thrown, fastDiscovery, table, authResult, tableIdx, discoveryLog, calls, recovered>>
  /\ RunStep(IF authResult.kind = "null" THEN "done" ELSE "r_signout")

\* if (authResult) await supabase.auth.signOut()
SignOut ==
  /\ pc = "r_signout"
  /\ calls' = Append(calls, "auth.signOut")
  /\ discoveryLog' = Append(discoveryLog, "Signed out successfully")
  /\ UNCHANGED <<thrown, fastDiscovery, table, authResult, tableIdx, result, recovered>>
  /\ RunStep("done")

runExtraction ==
  \/ Start \/ CheckConnection \/ Authenticate \/ Tables \/ ExportSql
  \/ NextTable \/ Record \/ Storage \/ SignOut

-----------------------------------------------------------------------------
(* Specifications *)

ExtIdle ==
  /\ table = NullRow
  /\ colServer = <<>>
  /\ columns = <<>>
  /\ requests = <<>>
  /\ query = <<>>
  /\ extracted = <<>>

MaskIdle == maskRow = <<>> /\ maskOut = <<>>

SrvIdle == runCountByIp = <<>> /\ now = 0 /\ admitted = <<>> /\ response = <<>>

PiiIdle == piiColumns = <<>> /\ piiRows = <<>> /\ findings = <<>>

StoIdle ==
  /\ buckets = <<>>
  /\ bucket = <<>>
  /\ objects = <<>>
  /\ scan = <<>>
  /\ bucketOut = <<>>
  /\ out = <<>>

RunIdle ==
  /\ config = <<>>
  /\ authResult = <<>>
  /\ tableIdx = 0
  /\ result = <<>>
  /\ discoveryLog = <<>>
  /\ calls = <<>>
  /\ recovered = <<>>

DiscIdle ==
  /\ common = <<>>
  /\ graphSchema = <<>>
  /\ discoveredTables = <<>>
  /\ strategyOut = <<>>
  /\ tableList = <<>>

\* getSchemaInfo(supabase, fastDiscovery, log) on its own
InitDiscovery ==
  /\ top = "getSchemaInfo"
  /\ pc = "m1a"
  /\ thrown = "none"
  /\ fastDiscovery \in BOOLEAN
  /\ DiscIdle /\ ExtIdle /\ MaskIdle /\ PiiIdle /\ StoIdle /\ SrvIdle /\ RunIdle

getSchemaInfo ==
  \/ Method1a \/ Method1b \/ Method2 \/ Method3 \/ Method4
  \/ Method4b \/ Method5 \/ Method5b \/ Method7 \/ Merge

NextDiscovery == getSchemaInfo

SpecDiscovery == InitDiscovery /\ [][NextDiscovery]_vars

\* the collections extractTableData is run on
ExtractTables ==
  {PublicOrders, PublicUsers, AuthUsers, AuthSessions,
   Desc("users", JsUndefined, "BASE TABLE"),
   GraphDesc("orders", "Orders", 4), GraphDesc("users", "Users", 3)}
  \cup Range(getTablesFromRPC(QRows(<<"auth.users">>)))
  \cup Range(discoverViaRestAPI(RestPaths(<<PathAuthUsers>>)))

\* extractTableData(supabase, table, log) on its own
InitExtract ==
  /\ top = "extractTableData"
  /\ pc = "x_start"
  /\ thrown = "none"
  /\ fastDiscovery = FALSE
  /\ table \in ExtractTables
  /\ colServer = <<>>
  /\ columns = ColNull
  /\ requests = <<>>
  /\ query = <<>>
  /\ extracted = <<>>
  /\ DiscIdle /\ MaskIdle /\ PiiIdle /\ StoIdle /\ SrvIdle /\ RunIdle

NextExtract == getTableColumns \/ extractTableData

SpecExtract == InitExtract /\ [][NextExtract]_vars

Absent == "<absent>"

\* a row of auth.users: each sensitive field absent, empty, null or set
MaskRowOf(id, email, f) ==
  LET Present(p) == p.v # Absent
  IN SelectSeq(<<Prop("id", id),
                 Prop("encrypted_password", f["encrypted_password"]),
                 Prop("email_confirmation_token", f["email_confirmation_token"]),
                 Prop("recovery_token", f["recovery_token"]),
                 Prop("email", email)>>, Present)

MaskRows ==
  {MaskRowOf(id, email, f) :
     id \in {Absent, "5"}, email \in {Absent, "a@b.com"},
     f \in [Range(SensitiveFields) -> {Absent, "", JsNull, "abc"}]}
  \cup {NullObject}

\* maskAuthUsersRow(row) on its own
InitMask ==
  /\ top = "maskAuthUsersRow"
  /\ pc = "mask"
  /\ thrown = "none"
  /\ fastDiscovery = FALSE
  /\ maskRow \in MaskRows
  /\ maskOut = <<>>
  /\ DiscIdle /\ ExtIdle /\ PiiIdle /\ StoIdle /\ SrvIdle /\ RunIdle

NextMask == Mask

SpecMask == InitMask /\ [][NextMask]_vars


\* analyzeStorageBuckets(supabase, log) on its own
InitStorage ==
  /\ top = "analyzeStorageBuckets"
  /\ pc = "s_list"
  /\ thrown = "none"
  /\ fastDiscovery = FALSE
  /\ DiscIdle /\ ExtIdle /\ MaskIdle /\ PiiIdle /\ StoIdle /\ SrvIdle /\ RunIdle

NextStorage == analyzeStorageBuckets

SpecStorage == InitStorage /\ [][NextStorage]_vars

\* every request of the scan is answered and the continuation after an
\* await is run: a scan that can take a step takes it
SpecStorageLive == SpecStorage /\ WF_vars(NextStorage)


\* runExtraction(config, options)
InitRun ==
  /\ top = "runExtraction"
  /\ pc = "r_start"
  /\ thrown = "none"
  /\ fastDiscovery = FALSE
  /\ config \in RunConfigs
  /\ authResult = <<>>
  /\ tableIdx = 0
  /\ result = <<>>
  /\ discoveryLog = <<>>
  /\ calls = <<>>
  /\ recovered = <<>>
  /\ DiscIdle /\ ExtIdle /\ MaskIdle /\ PiiIdle /\ StoIdle /\ SrvIdle

NextRun ==
  \/ runExtraction \/ getSchemaInfo \/ getTableColumns \/ extractTableData
  \/ analyzeStorageBuckets

SpecRun == InitRun /\ [][NextRun]_vars

\* a run whose requests are all answered
SpecRunLive == SpecRun /\ WF_vars(NextRun)


NameNode == <<"N", "o", "d", "e">>
NamePing == <<"P", "i", "n", "g">>
NameHTTPLog == <<"H", "T", "T", "P", "L", "o", "g">>
NameOrderEdge == <<"o", "r", "d", "e", "r", "E", "d", "g", "e">>

\* the types the graph endpoint serves
ServedTypes ==
  <<GraphType(NameString, "SCALAR", 0), GraphType(NameOrders, "OBJECT", 4),
    GraphType(NameOrdersConnection, "OBJECT", 2), GraphType(NameOrderItems, "OBJECT", 3),
    GraphType(NameIntrospection, "OBJECT", 5), GraphType(NameNode, "INTERFACE", 1),
    GraphType(NamePing, "OBJECT", 0), GraphType(NameHTTPLog, "OBJECT", 1),
    GraphType(NameOrderEdge, "OBJECT", 2)>>

\* the types of the fields of the query type: Orders, [Orders]!,
\* [OrderItems!]!, OrdersConnection, String!, __Type, Node, Ping, HTTPLog!,
\* orderEdge
ServedFields ==
  {<<TypeRef(NameOrders, "OBJECT")>>,
   <<TypeRef(<<>>, "NON_NULL"), TypeRef(<<>>, "LIST"), TypeRef(NameOrders, "OBJECT")>>,
   <<TypeRef(<<>>, "NON_NULL"), TypeRef(<<>>, "LIST"), TypeRef(<<>>, "NON_NULL"),
     TypeRef(NameOrderItems, "OBJECT")>>,
   <<TypeRef(NameOrdersConnection, "OBJECT")>>,
   <<TypeRef(<<>>, "NON_NULL"), TypeRef(NameString, "SCALAR")>>,
   <<TypeRef(NameIntrospection, "OBJECT")>>,
   <<TypeRef(NameNode, "INTERFACE")>>,
   <<TypeRef(NamePing, "OBJECT")>>,
   <<TypeRef(<<>>, "NON_NULL"), TypeRef(NameHTTPLog, "OBJECT")>>,
   <<TypeRef(NameOrderEdge, "OBJECT")>>}

\* the schemas of one or two query fields, and the endpoint's failures
GraphServers ==
  {FThrow, FNotOk, FBadJson, GraphNoSchema}
    \cup {GraphSchema(<<f>>, ServedTypes) : f \in ServedFields}
    \cup {GraphSchema(<<f, g>>, ServedTypes) : f \in ServedFields, g \in ServedFields}

\* discoverViaGraphQL(supabase, log) on its own
InitGraph ==
  /\ top = "discoverViaGraphQL"
  /\ pc = "m5b"
  /\ thrown = "none"
  /\ fastDiscovery = FALSE
  /\ common = <<>>
  /\ graphSchema \in GraphServers
  /\ discoveredTables = <<>>
  /\ strategyOut = <<>>
  /\ tableList = <<>>
  /\ ExtIdle /\ MaskIdle /\ PiiIdle /\ StoIdle /\ SrvIdle /\ RunIdle

NextGraph == Method5b

SpecGraph == InitGraph /\ [][NextGraph]_vars

\* the outcomes of the probes of discoverCommonTables
CommonAnswers ==
  {NoCommonTables,
   ProbeAnswers(COMMON_TABLES, {"users", "profiles", "orders"}, {"user"}),
   ProbeAnswers(COMMON_TABLES, {"members", "accounts", "user", "buffer"}, {"users", "cache"})}

\* discoverCommonTables(supabase, log) on its own
InitCommon ==
  /\ top = "discoverCommonTables"
  /\ pc = "b_loop"
  /\ thrown = "none"
  /\ fastDiscovery = FALSE
  /\ common \in {[answers |-> a, i |-> 0, inFlight |-> {}, batchResults |-> <<>>,
                  found |-> <<>>, batches |-> 0, pauses |-> 0] : a \in CommonAnswers}
  /\ graphSchema = <<>>
  /\ discoveredTables = <<>>
  /\ strategyOut = <<>>
  /\ tableList = <<>>
  /\ ExtIdle /\ MaskIdle /\ PiiIdle /\ StoIdle /\ SrvIdle /\ RunIdle

NextCommon == commonTablesProbes

SpecCommon == InitCommon /\ [][NextCommon]_vars


\* the most rows of a sample drawn value by value
MaxPiiRows == 2

\* a column as the resolver infers it from a sample row
PiiCol(n) == Col(n, "unknown", "YES", JsNull, 0)

PiiColumnSets ==
  {ColNull, ColNotList, ColList(<<>>),
   ColList(<<PiiCol("dob")>>),
   ColList(<<PiiCol("id"), PiiCol("name"), PiiCol("dob")>>),
   ColList(<<PiiCol("city"), PiiCol("age")>>),
   ColList(<<PiiCol("phone"), PiiCol("DOB"), PiiCol("email")>>),
   ColList(<<PiiCol("City"), PiiCol("city")>>)}

PiiValues ==
  {JsNull, JsUndefined, "", "  ", "Ann", "A", "O'Neil-Smith", "R2D2", "1990-01-01",
   " 1990-01-01 ", "31/12/99", "not-a-date", "42", "07", "120", "121",
   "+44 20 7946 0958", "12345", " Paris ", "Paris"}

\* a row that holds the value under every column of the column sets
PiiRow(v) ==
  <<Prop("id", v), Prop("name", v), Prop("dob", v), Prop("DOB", v), Prop("age", v),
    Prop("city", v), Prop("City", v), Prop("phone", v), Prop("email", v)>>

PiiRowsOf(vs) == Data([i \in 1..Len(vs) |-> PiiRow(vs[i])])

PiiSampleSets ==
  {PiiRowsOf(vs) : vs \in UNION {[1..n -> PiiValues] : n \in 0..MaxPiiRows}}
  \cup {PiiRowsOf(<<"1990-01-01", "not-a-date", " 1990-01-01 ">>),
        PiiRowsOf(<<"Paris", "Rome", " Paris ", "Oslo", "Bern", "Kyiv", "Riga">>),
        DataNull, DataObject(2)}

InitPII ==
  /\ top = "detectPII"
  /\ pc = "pii"
  /\ thrown = "none"
  /\ fastDiscovery = FALSE
  /\ piiColumns \in PiiColumnSets
  /\ piiRows \in PiiSampleSets
  /\ findings = <<>>
  /\ DiscIdle /\ ExtIdle /\ MaskIdle /\ StoIdle /\ SrvIdle /\ RunIdle

NextPII == Detect

SpecPII == InitPII /\ [][NextPII]_vars

-----------------------------------------------------------------------------
(* server.js: the rate limiter in front of POST /api/run                    *)

RATE_LIMIT_WINDOW_MS == 60000
RATE_LIMIT_MAX == 10

\* the time between two observations of the clock, and the last one observed
TickMs == 20000
MaxNow == 60000
\* the requests an address goes on sending once it is being refused
MaxRefused == 1
\* the requests per window of the clients whose address is unknown
MaxUnknown == 2

\* req.ip || req.socket?.remoteAddress || 'unknown'
ClientIps == {"10.0.0.1", "unknown"}

\* runCountByIp.get(ip) of an address never seen
NoEntry == [count |-> 0, resetAt |-> 0, js |-> "undefined"]
Entry(count, resetAt) == [count |-> count, resetAt |-> resetAt, js |-> "object"]

\* the entry of the address when the count is incremented: created if
\* missing, reset if now >= entry.resetAt
CurrentEntry(ip) ==
  LET entry == IF runCountByIp[ip] = NoEntry
               THEN Entry(0, now + RATE_LIMIT_WINDOW_MS)
               ELSE runCountByIp[ip]
  IN IF now >= entry.resetAt THEN Entry(0, now + RATE_LIMIT_WINDOW_MS) ELSE entry

\* the times within the last RATE_LIMIT_WINDOW_MS before t
LastMinute(times, t) == SelectSeq(times, LAMBDA x : x > t - RATE_LIMIT_WINDOW_MS)

\* what the handler of POST /api/run answers once rateLimit called next():
\* 400 without url and key, 200 with the result of the run, 500 if it rejects
HandlerStatuses == {400, 200, 500}

ServerFrame ==
  UNCHANGED <<top, pc, thrown, discVars, extVars, maskVars, piiVars, stoVars, runVars>>

\* POST /api/run from an address: rateLimit, then the handler
PostRun ==
  \E ip \in ClientIps :
    LET entry == CurrentEntry(ip)
        count == entry.count + 1
    IN /\ count <= RATE_LIMIT_MAX + MaxRefused
       /\ ip = "unknown" => count <= MaxUnknown
       /\ runCountByIp' = [runCountByIp EXCEPT ![ip] = Entry(count, entry.resetAt)]
       /\ IF count > RATE_LIMIT_MAX
          THEN /\ response' = [ip |-> ip, status |-> 429]
               /\ admitted' = [a \in ClientIps |-> LastMinute(admitted[a], now)]
          ELSE /\ \E status \in HandlerStatuses : response' = [ip |-> ip, status |-> status]
               /\ admitted' = [a \in ClientIps |->
                                 LastMinute(admitted[a], now)
                                   \o (IF a = ip THEN <<now>> ELSE <<>>)]
       /\ UNCHANGED now
       /\ ServerFrame

\* time passes
Tick ==
  /\ now + TickMs <= MaxNow
  /\ now' = now + TickMs
  /\ admitted' = [a \in ClientIps |-> LastMinute(admitted[a], now')]
  /\ UNCHANGED <<runCountByIp, response>>
  /\ ServerFrame

\* the server after app.listen: no address seen yet
InitServer ==
  /\ top = "server"
  /\ pc = "listening"
  /\ thrown = "none"
  /\ fastDiscovery = FALSE
  /\ runCountByIp = [ip \in ClientIps |-> NoEntry]
  /\ now = 0
  /\ admitted = [ip \in ClientIps |-> <<>>]
  /\ response = <<>>
  /\ DiscIdle /\ ExtIdle /\ MaskIdle /\ PiiIdle /\ StoIdle /\ RunIdle

NextServer == PostRun \/ Tick

SpecServer == InitServer /\ [][NextServer]_vars

-----------------------------------------------------------------------------
(* Claims *)

Names(s) == {s[i].table_name : i \in 1..Len(s)}

\* the concatenation of the strategy outputs, in strategy order
AllFound == Flatten(strategyOut)

\* position in AllFound of the first descriptor named n
FirstFound(n) ==
  CHOOSE i \in 1..Len(AllFound) :
    AllFound[i].table_name = n /\ \A j \in 1..(i - 1) : AllFound[j].table_name # n

SchemaInfoReturned == top = "getSchemaInfo" /\ pc = "done"

\* C1: when getSchemaInfo returns, its result holds exactly the names the nine
\* strategies produced, each once, under the earliest descriptor of that name in
\* strategy order (namespace, kind and graph metadata of that one), and the kept
\* descriptors stand in the order of their first occurrence.
C1_MergeFirstOccurrenceWins ==
  SchemaInfoReturned =>
    /\ Len(strategyOut) = 9
    /\ Names(tableList) = Names(AllFound)
    /\ \A k \in 1..Len(tableList) :
         tableList[k] = AllFound[FirstFound(tableList[k].table_name)]
    /\ \A k, l \in 1..Len(tableList) :
         k < l => FirstFound(tableList[k].table_name) < FirstFound(tableList[l].table_name)

\* C1 witness: a returned merge in which one name came from two strategies under
\* different namespaces, and another later duplicate carried a graph type name.
C1_Witness ==
  /\ SchemaInfoReturned
  /\ \E i, j \in 1..Len(AllFound) :
       /\ i < j
       /\ AllFound[i].table_name = AllFound[j].table_name
       /\ AllFound[i].table_schema # AllFound[j].table_schema
  /\ \E i, j \in 1..Len(AllFound) :
       /\ i < j
       /\ AllFound[i].table_name = AllFound[j].table_name
       /\ AllFound[j].graphql_type # JsUndefined
       /\ AllFound[i].graphql_type = JsUndefined

\* C7 (as claimed): whatever a strategy's request does, getSchemaInfo does not
\* throw, all nine strategies run, and what earlier strategies contributed is in
\* the merged result.
C7_StrategyIsolation ==
  top = "getSchemaInfo" =>
    /\ pc # "threw"
    /\ pc = "done" => Len(strategyOut) = 9 /\ Names(AllFound) \subseteq Names(tableList)

\* the strategy outputs with strategy k disabled
Without(k) == [i \in 1..Len(strategyOut) |-> IF i = k THEN <<>> ELSE strategyOut[i]]

NonEmpty(v) == v \notin {"", JsNull, JsUndefined}

\* C5 (as claimed): the masked row has exactly the keys of the row; a sensitive
\* field that is present and not empty reads "[MASKED]", every other field reads
\* what it read before. So the row {id, encrypted_password: "abc",
\* recovery_token: "", email} masks to a row of those four keys.
C5_MaskKeepsKeys ==
  (top = "maskAuthUsersRow" /\ pc = "done" /\ maskRow # NullObject) =>
    /\ Keys(maskOut) = Keys(maskRow)
    /\ \A i \in 1..Len(maskRow) :
         Get(maskOut, maskRow[i].k) =
           IF maskRow[i].k \in Range(SensitiveFields) /\ NonEmpty(maskRow[i].v)
           THEN MASKED ELSE maskRow[i].v

ExtractReturned == top = "extractTableData" /\ pc = "done"

\* C6: for every collection other than users of namespace auth, the sample rows
\* of the result are the first min(3, n) rows the service returned, unaltered.
C6_OnlyAuthUsersMasked ==
  (ExtractReturned /\ ~(table.table_schema = "auth" /\ table.table_name = "users")) =>
    /\ \A i \in 1..Len(extracted.sampleRows) :
         extracted.sampleRows[i] = query.data.rows[i]
    /\ (extracted.error = JsNull /\ ~query.data.isNull) =>
         Len(extracted.sampleRows) =
           (IF Len(query.data.rows) < 3 THEN Len(query.data.rows) ELSE 3)

\* C6 witness: public.users returned four rows; the result holds the first three
\* with the password hash and the tokens as the service sent them.
C6_Witness ==
  /\ ExtractReturned
  /\ table.table_name = "users" /\ table.table_schema = "public"
  /\ Len(query.data.rows) = 4
  /\ Len(extracted.sampleRows) = 3
  /\ Get(extracted.sampleRows[1], "encrypted_password") = "abc"
  /\ Get(extracted.sampleRows[2], "recovery_token") = "rt"

\* the columns each resolver step yields from what the service answers
CatalogYield(srv) == IF srv.catalog.kind = "rows" THEN srv.catalog.rows ELSE <<>>
SampleYield(srv) ==
  IF /\ srv.probe = "ok"
     /\ srv.sample.kind = "rows"
     /\ srv.sample.rows # <<>>
     /\ srv.sample.rows[1] # NullObject
  THEN [i \in 1..Len(srv.sample.rows[1]) |->
          Col(srv.sample.rows[1][i].k, "unknown", "YES", JsNull, 0)]
  ELSE <<>>
RpcYield(srv) == IF srv.rpc.kind = "rows" THEN srv.rpc.rows ELSE <<>>
StepYields(srv) == <<CatalogYield(srv), SampleYield(srv), RpcYield(srv)>>

OpRank(op) ==
  CASE op = "columns.catalog" -> 1 [] op = "columns.probe" -> 2
    [] op = "columns.sample" -> 3 [] op = "columns.rpc" -> 4

ColumnsReturned == top = "extractTableData" /\ pc = "x_cols"

\* C9 (as claimed): the requests go out in the order catalog, probe, sample,
\* rpc; the resolver returns the columns of the first step that yields at least
\* one, and that step's request is the last one issued.
C9_FirstYieldingStepWins ==
  ColumnsReturned =>
    /\ requests # <<>> /\ requests[1].op = "columns.catalog"
    /\ \A i, j \in 1..Len(requests) :
         i < j => OpRank(requests[i].op) < OpRank(requests[j].op)
    /\ \A s \in 1..3 :
         (/\ StepYields(colServer)[s] # <<>>
          /\ \A e \in 1..(s - 1) : StepYields(colServer)[e] = <<>>) =>
           /\ columns = ColList(StepYields(colServer)[s])
           /\ OpRank(requests[Len(requests)].op) = <<1, 3, 4>>[s]

\* C10 (as claimed): the resolver returns null or a list of at least one
\* column, and null exactly when no step yields a column.
C10_NullOrNonEmpty ==
  ColumnsReturned =>
    /\ columns = ColNull \/ (columns.kind = "list" /\ Len(columns.cols) >= 1)
    /\ columns = ColNull <=> \A s \in 1..3 : StepYields(colServer)[s] = <<>>


\* the run returned its RunResult (it did not reject)
RunReturned == top = "runExtraction" /\ pc = "done"

\* C2: in the RunResult of a completed run the record list has exactly one
\* record per collection of the merged discovery result, in merged order,
\* and the collection names of the records are pairwise distinct
C2_OneRecordPerCollection ==
  RunReturned =>
    /\ Len(result.tables) = Len(tableList)
    /\ \A i \in 1..Len(tableList) :
         result.tables[i].table_name = tableList[i].table_name
    /\ \A i, j \in 1..Len(result.tables) :
         result.tables[i].table_name = result.tables[j].table_name => i = j

\* a completed run whose strategies reported a collection more than once
\* and that recorded several collections
C2_Witness ==
  /\ RunReturned
  /\ Len(result.tables) >= 2
  /\ Len(discoveredTables) > Len(tableList)

\* the audits pushed so far
Audits == IF top \in {"analyzeStorageBuckets", "runExtraction"} THEN Range(out) ELSE {}

\* C3: whatever the listing pages and folder listings answer, the number of
\* objects indexed for a bucket (objectCount) never exceeds 2000; a bucket
\* with 5000 listable root objects ends with exactly 2000 indexed entries
C3_IndexedAtMostCap ==
  \A audit \in Audits : audit.objectCount <= STORAGE_INDEX_LIMIT

\* C4: an audit has a publicUrlCheck exactly when the bucket is configured
\* public and at least one object was indexed; a public bucket with no
\* indexed object has none, and a check whose fetches all failed is reported
\* with verified = 0, the audit being pushed as any other
C4_PublicUrlCheckPresence ==
  /\ \A audit \in Audits :
       /\ audit.publicUrlCheck.present <=> (audit.public /\ audit.objectCount > 0)
       /\ audit.publicUrlCheck.present =>
            /\ audit.publicUrlCheck.sampleSize > 0
            /\ audit.publicUrlCheck.verified \in 0..audit.publicUrlCheck.sampleSize
  /\ pc = "s_bucket" /\ out # <<>> =>
       /\ out[Len(out)] = bucketOut
       /\ bucketOut.name = BucketName(bucket)

\* the analysis returned a public bucket with indexed objects none of which
\* was reachable, and a private bucket with indexed objects
C4_Witness ==
  /\ top = "analyzeStorageBuckets" /\ pc = "done"
  /\ \E audit \in Audits :
       /\ audit.public /\ audit.objectCount > 0
       /\ audit.publicUrlCheck = Check(0, STORAGE_PUBLIC_VERIFY_SAMPLE)
  /\ \E audit \in Audits :
       ~audit.public /\ audit.objectCount > 0 /\ ~audit.publicUrlCheck.present


\* the row query failed: the first query with no successful retry, or an
\* exception of either query
RowQueryFailed == query # <<>> /\ query.error # JsNull

\* the graph-name retry was requested
Retried == \E i \in 1..Len(requests) : requests[i].op = "rows.graphql"

\* C11 (as claimed): when the row query fails (after any graph-name retry) the
\* result carries the error message verbatim with no sample row and rowCount 0;
\* and whenever the result's error is not null, rowCount is 0 and sampleRows
\* is empty
C11_ErrorMeansNoData ==
  ExtractReturned =>
    /\ RowQueryFailed =>
         /\ extracted.error \in {query.error, FETCH_FAILED}
         /\ extracted.error # query.error => Retried
         /\ extracted.rowCount = 0 /\ extracted.sampleRows = <<>>
    /\ extracted.error # JsNull =>
         extracted.rowCount = 0 /\ extracted.sampleRows = <<>>

\* C11 (amended): as above for a failed row query; whenever the result's error
\* is not null, sampleRows is empty, and rowCount is 0 unless the error is the
\* exception of sampling a row data that is no list, raised after the count
\* was stored, in which case rowCount is that count
C11_ErrorMeansNoSample ==
  ExtractReturned =>
    /\ RowQueryFailed =>
         /\ extracted.error \in {query.error, FETCH_FAILED}
         /\ extracted.error # query.error => Retried
         /\ extracted.rowCount = 0 /\ extracted.sampleRows = <<>>
    /\ extracted.error # JsNull =>
         /\ extracted.sampleRows = <<>>
         /\ \/ extracted.rowCount = 0
            \/ /\ ~RowQueryFailed /\ SliceThrows(query)
               /\ extracted.error = NO_SLICE
               /\ extracted.rowCount = Total(query)

\* a graph type whose row query was denied and whose retry under the type
\* name failed too: the result carries the first message
C11_Witness ==
  /\ ExtractReturned
  /\ Truthy(table.graphql_type) /\ Retried
  /\ query.error = DENIED
  /\ extracted.error = DENIED
  /\ extracted.rowCount = 0 /\ extracted.sampleRows = <<>>


\* the row query succeeded and its rows were sampled
RowQuerySucceeded == query # <<>> /\ query.error = JsNull /\ extracted.error = JsNull

PiiReturned == top = "detectPII" /\ pc = "done"

\* what String(v).trim() gives for the sample values of SpecPII
TrimmedForm(v) ==
  CASE v = " 1990-01-01 " -> "1990-01-01"
    [] v = " Paris " -> "Paris"
    [] v = "  " -> ""
    [] OTHER -> v

\* the trimmed sample values each value pattern accepts, worked out by hand
Accepted(piiType) ==
  CASE piiType = "name" ->
         {"Ann", "O'Neil-Smith", "not-a-date", "Paris", "Rome", "Oslo", "Bern", "Kyiv", "Riga"}
    [] piiType = "dob" -> {"1990-01-01", "31/12/99"}
    [] piiType = "age" -> {"42", "120"}
    [] piiType = "telephone" -> {"+44 20 7946 0958", "1990-01-01"}
    [] OTHER -> {}

\* the trimmed forms of the non-empty sample values of a column
Observed(colName) ==
  IF piiRows.isArray
  THEN {TrimmedForm(Get(piiRows.rows[i], colName)) :
          i \in {j \in 1..Len(piiRows.rows) :
                   Get(piiRows.rows[j], colName) \notin {JsNull, JsUndefined, ""}}}
  ELSE {}

\* C13: for a rule with a value pattern and a column the rule names, the
\* finding's confidence is 'value' exactly when a non-empty sample value of the
\* column (trimmed) matches the value pattern, and every example is a sample
\* value that matches; for column dob with samples "1990-01-01" and
\* "not-a-date" the confidence is 'value' and the examples hold the first alone
C13_ValueConfidence ==
  PiiReturned =>
    \A i \in 1..Len(findings) :
      LET f == findings[i]
      IN f.piiType # "address" =>
           /\ f.confidence = "value" <=>
                Observed(f.column) \cap Accepted(f.piiType) # {}
           /\ Range(f.examples) \subseteq Observed(f.column) \cap Accepted(f.piiType)
           /\ f.confidence = "value" => f.examples # <<>>

\* the column dob sampled as "1990-01-01", "not-a-date" and the first again
\* between blanks: one example, found by value
C13_Witness ==
  /\ PiiReturned
  /\ piiColumns = ColList(<<PiiCol("dob")>>)
  /\ piiRows = PiiRowsOf(<<"1990-01-01", "not-a-date", " 1990-01-01 ">>)
  /\ findings = <<[column |-> "dob", piiType |-> "dob", confidence |-> "value",
                   examples |-> <<"1990-01-01">>]>>

\* C14: in every finding of detectPII, for any columns and any sample rows,
\* examples holds at most 5 entries, pairwise distinct, none the empty string
C14_ExamplesCapped ==
  PiiReturned =>
    \A i \in 1..Len(findings) :
      LET ex == findings[i].examples
      IN /\ Len(ex) <= MAX_EXAMPLES
         /\ \A j, k \in 1..Len(ex) : ex[j] = ex[k] => j = k
         /\ \A j \in 1..Len(ex) : ex[j] # ""


\* the column names of SpecPII in lower case
LowerForm(n) ==
  CASE n = "DOB" -> "dob"
    [] n = "City" -> "city"
    [] OTHER -> n

\* the (rule, column) pairs a column list gives rise to, as piiType and name
Named ==
  LET names == {piiColumns.cols[c].column_name : c \in 1..Len(piiColumns.cols)}
  IN UNION {{<<PII_RULES[r].piiType, n>> :
               n \in {m \in names : LowerForm(m) \in PII_RULES[r].columns}} :
            r \in 1..Len(PII_RULES)}

NoSampleRows == ~piiRows.isArray \/ piiRows.rows = <<>>

\* every column a rule names has its finding, sample rows or not, and without
\* sample rows the finding is by column name with no example
FindingPerNamedColumn ==
  /\ {<<findings[i].piiType, findings[i].column>> : i \in 1..Len(findings)} = Named
  /\ NoSampleRows =>
       \A i \in 1..Len(findings) :
         findings[i].confidence = "column_name" /\ findings[i].examples = <<>>

Called(what) == \E i \in 1..Len(calls) : calls[i] = what
Logged(message) == \E i \in 1..Len(discoveryLog) : discoveryLog[i] = message

\* authenticateUser has returned
SignInDone == top = "runExtraction" /\ pc \notin {"r_start", "r_connect", "r_auth"}
              /\ thrown \notin {"Missing required parameters: url and key", "Connection failed"}

\* C16: whenever a bearer token is configured the run never invokes
\* signInWithPassword, whether or not email and password were supplied too and
\* whether or not the token check succeeds: it asks for the token's user, the
\* user reported is the token's, and when email or password came with the
\* token the choice is logged
C16_TokenPrecedence ==
  (top = "runExtraction" /\ Truthy(config.token)) =>
    /\ ~Called("auth.signInWithPassword")
    /\ SignInDone =>
         /\ Called("auth.getUser")
         /\ (Truthy(config.email) \/ Truthy(config.password)) => Logged(LOG_BOTH)
         /\ result.auth.used <=> authResult.kind = "user"

\* a run configured with token, email and password whose token check failed:
\* it ran to its end anonymously, the password never tried
C16_Witness ==
  /\ RunReturned
  /\ Truthy(config.token) /\ Truthy(config.email) /\ Truthy(config.password)
  /\ authResult.kind = "null"
  /\ calls[2] = "auth.getUser"
  /\ Logged(LOG_BOTH)
  /\ Len(result.tables) > 0

Authenticated == SignInDone /\ authResult.kind = "user"

\* C17: in every run in which authentication occurred, sign-out is invoked
\* before the run hands its result to the caller, on every path by which the
\* run ends; in a run where none occurred, sign-out is never invoked
C17_SignOutAtRunEnd ==
  /\ (RunReturned /\ Authenticated) => Called("auth.signOut")
  /\ (top = "runExtraction" /\ Called("auth.signOut")) => Authenticated

\* C18: with the URL or the API key missing the run raises one error before
\* any request to the service and returns no RunResult; when the connection
\* check fails the run raises one error and returns no RunResult, and no
\* authentication, discovery, extraction or storage request is issued
C18_RunLevelFailures ==
  top = "runExtraction" =>
    /\ (~Truthy(config.url) \/ ~Truthy(config.key)) =>
         /\ pc \in {"r_start", "threw"}
         /\ pc = "threw" => thrown = "Missing required parameters: url and key"
         /\ calls = <<>> /\ strategyOut = <<>> /\ requests = <<>> /\ buckets = <<>>
    /\ Logged("Connection failed: " \o FETCH_FAILED) =>
         /\ pc = "threw" /\ thrown = "Connection failed"
         /\ calls = <<"auth.getSession">>
         /\ strategyOut = <<>> /\ requests = <<>> /\ buckets = <<>>
    /\ thrown # "none" => pc = "threw"

\* the session request threw: the run rejected with 'Connection failed'
C18_Witness ==
  /\ top = "runExtraction" /\ pc = "threw"
  /\ thrown = "Connection failed"
  /\ calls = <<"auth.getSession">>


C20_StorageScanIndependent ==
  RunReturned =>
    /\ Called("storage.listBuckets")
    /\ result.storage = out


\* the extraction loop is at a collection of tableList
InLoop == top = "runExtraction" /\ tableIdx \in 1..Len(tableList)

\* C21: a failure met while one collection is processed never aborts the run:
\* the run is never rejected inside the extraction loop, and once the loop is
\* over there is one record per discovered collection
C21_CollectionFailureIsolated ==
  top = "runExtraction" =>
    /\ pc = "threw" => ~InLoop
    /\ (pc \in {"s_list", "done"} /\ Len(tableList) > 0) =>
         Len(result.tables) = Len(tableList)


\* C22: every failure a routine recovers from (a discovery strategy that
\* errored or threw, a column-resolution step, a row query, a listing of a
\* bucket's objects) appends at least one message to the log: the step that
\* meets the failure leaves the log longer than it was when the request failed
C22_EveryFailureLogged ==
  [][\A i \in (Len(recovered) + 1)..Len(recovered') :
       Len(discoveryLog') > recovered'[i].at]_vars


\* the listings of a bucket's objects: the first page, a later page, a folder
ListingRequests == {"storage.list", "storage.list.next", "storage.list.folder"}

\* the buckets one of whose listings answered with an error
ListingFailedFor ==
  {recovered[i].ref : i \in {j \in 1..Len(recovered) : recovered[j].what \in ListingRequests}}

\* C23: an error of any listing of a bucket's objects, returned or thrown, is
\* recorded as the listError of that bucket's audit and does not abort the
\* scan: the scan never rejects, each audit of a bucket with a failed listing
\* has a listError, and every such bucket is in the returned list
C23_ListingErrorsRecorded ==
  top = "analyzeStorageBuckets" =>
    /\ pc # "threw"
    /\ \A i \in 1..Len(out) :
         out[i].name \in ListingFailedFor => out[i].listError # JsUndefined
    /\ pc = "done" => \A b \in ListingFailedFor : \E i \in 1..Len(out) : out[i].name = b


\* the requests of the common-name brute force, in the order of the list
CommonRequests == ProbeRequests("", COMMON_TABLES)
CommonRequestSet == Range(CommonRequests)

\* a probe of the common-name brute force was issued
CommonProbed == \E i \in 1..Len(calls) : calls[i] \in CommonRequestSet

\* the strategies before the brute force: Methods 1a, 1b, 2, 3, 4, 4b, 5, 5b
OtherStrategies == <<"m1a", "m1b", "m2", "m3", "m4", "m4b", "m5", "m5b">>

\* C24: in fast-discovery mode no brute-force probe is issued and the merged
\* result is the merge of what the other strategies found; with fast
\* discovery off the probes of the brute force are the last requests of
\* discovery, issued after every other strategy has contributed
C24_FastSkipsBruteForce ==
  top = "getSchemaInfo" =>
    /\ fastDiscovery =>
         /\ ~CommonProbed
         /\ pc = "done" =>
              /\ tableList = UniqueTables(Flatten(SubSeq(strategyOut, 1, Len(OtherStrategies))))
              /\ Logged("Skipping comprehensive table name discovery (fast mode enabled)")
    /\ ~fastDiscovery =>
         /\ CommonProbed <=> Len(strategyOut) > Len(OtherStrategies)
         /\ Len(strategyOut) > Len(OtherStrategies) =>
              /\ Len(calls) > Len(COMMON_TABLES)
              /\ SubSeq(calls, Len(calls) - Len(COMMON_TABLES) + 1, Len(calls))
                   = CommonRequests

\* a fast discovery that returned collections found by the other strategies
C24_Witness ==
  /\ SchemaInfoReturned
  /\ fastDiscovery
  /\ Len(tableList) > 1
  /\ strategyOut[Len(OtherStrategies) + 1] = <<>>


\* C25: the run never reads or writes a file, whatever its configuration
C25_NoFileAccess ==
  top = "runExtraction" =>
    /\ ~Called("fs.writeFile")
    /\ result # <<>> => result.exportSqlPath = JsUndefined


\* the request the sample rows of the record came from
RowsFetchedFrom == requests[Len(requests)].ref

\* C26: whichever strategy produced the descriptor, no sample row fetched
\* from the reference auth.users carries a non-empty encrypted_password,
\* email_confirmation_token or recovery_token other than the mask token
C26_AuthUsersRowsMasked ==
  (ExtractReturned /\ extracted.sampleRows # <<>> /\ RowsFetchedFrom = "auth.users") =>
    \A i \in 1..Len(extracted.sampleRows) :
      \A j \in 1..Len(SensitiveFields) :
        LET row == extracted.sampleRows[i]
            f == SensitiveFields[j]
        IN Has(row, f) => (~NonEmpty(Get(row, f)) \/ Get(row, f) = MASKED)


RECURSIVE Received(_)
\* the number of entries the pages brought
Received(pages) ==
  IF pages = <<>> THEN 0 ELSE Head(pages).got + Received(Tail(pages))

\* C27: the root listing is paged in sequence: a first page of 500, then
\* pages of 200 each starting where the entries received so far end, and no
\* page is requested after a page, the first included, that brought fewer
\* entries than requested, or once 2000 objects are indexed
C27_RootPaging ==
  (top = "analyzeStorageBuckets" /\ scan # <<>>) =>
    LET pages == scan.pages
    IN \A i \in 1..Len(pages) :
         /\ pages[i].limit = IF i = 1 THEN FIRST_PAGE_LIMIT ELSE NEXT_PAGE_LIMIT
         /\ pages[i].offset = Received(SubSeq(pages, 1, i - 1))
         /\ i > 1 => /\ pages[i - 1].got = pages[i - 1].limit
                     /\ Received(SubSeq(pages, 1, i - 1)) < STORAGE_INDEX_LIMIT


\* the requests of the record made under the graph type name
GraphRetries == {i \in 1..Len(requests) : requests[i].op = "rows.graphql"}

\* the retry threw
RetryThrew == \E i \in 1..Len(recovered) : recovered[i].what = "rows.graphql"

\* when and how often the graph type name is queried, and what a retry that
\* succeeded leaves in the record
RetryOnceAndUsed ==
  /\ pc = "x_retry" =>
       /\ query.kind = "resolved" /\ query.error # JsNull
       /\ Truthy(table.graphql_type)
       /\ GraphRetries = {}
  /\ ~Truthy(table.graphql_type) => GraphRetries = {}
  /\ GraphRetries # {} =>
       /\ GraphRetries = {Len(requests)}
       /\ requests[Len(requests)] = Req("rows.graphql", table.graphql_type)
       /\ requests[Len(requests) - 1] = Req("rows", TableRef(table))
  /\ (ExtractReturned /\ GraphRetries # {} /\ ~RetryThrew /\ query.error = JsNull) =>
       /\ extracted.error = JsNull
       /\ extracted.rowCount = Total(query)
       /\ extracted.sampleRows = SampleRows(table, query)

\* C28: the graph type name is queried only for a collection that carries
\* one and whose query under the primary name failed, and then once; a retry
\* that succeeds gives the record its data and count and no error; after a
\* retry that fails too, the record's error is the error of the primary attempt
C28_GraphNameRetry ==
  top = "extractTableData" =>
    /\ RetryOnceAndUsed
    /\ (ExtractReturned /\ GraphRetries # {} /\ query.error # JsNull) =>
         extracted.error = query.error

\* C28 as the code has it: after a retry that answers with an error the
\* record's error is the error of the primary attempt, and after a retry that
\* throws it is the message of the exception
C28_GraphNameRetryErrors ==
  top = "extractTableData" =>
    /\ RetryOnceAndUsed
    /\ (ExtractReturned /\ GraphRetries # {} /\ query.error # JsNull) =>
         IF RetryThrew
         THEN discoveryLog[Len(discoveryLog)] = "Unexpected error: " \o extracted.error
         ELSE extracted.error = query.error

\* a graph-discovered collection whose primary query failed and whose retry
\* under the type name brought the rows
C28_Witness ==
  /\ ExtractReturned
  /\ GraphRetries # {} /\ ~RetryThrew
  /\ query.error = JsNull
  /\ extracted.rowCount = 1 /\ Len(extracted.sampleRows) = 1


\* the number of batches of the candidate list
NumBatches == (Len(COMMON_TABLES) + batchSize - 1) \div batchSize

\* C29: the candidate names are probed in consecutive batches of 10: the
\* probes of a batch are in flight together, no probe of the next batch is
\* issued before every probe of the batch has completed, at most 10 probes
\* are in flight, a pause separates consecutive batches and none follows the
\* last batch
C29_BatchesOfTen ==
  top = "discoverCommonTables" =>
    /\ Cardinality(common.inFlight) <= batchSize
    /\ common.inFlight \subseteq BatchOf(common.i)
    /\ calls = SubSeq(CommonRequests, 1, Len(calls))
    /\ pc = "b_loop" =>
         /\ common.inFlight = {}
         /\ Len(calls) = Min(common.i, Len(COMMON_TABLES))
         /\ common.pauses = Min(common.batches, NumBatches - 1)
    /\ pc \in {"b_wait", "b_pause"} =>
         /\ Len(calls) = Min(common.i + batchSize, Len(COMMON_TABLES))
         /\ common.i = batchSize * common.pauses
    /\ pc = "b_wait" =>
         /\ common.pauses = common.batches
         /\ \A k \in BatchOf(common.i) :
              k \in common.inFlight <=> common.batchResults[k - common.i] = Pending
    /\ pc = "b_pause" =>
         /\ common.inFlight = {}
         /\ common.batches = common.pauses + 1
         /\ common.batches < NumBatches
    /\ pc = "done" =>
         /\ common.batches = NumBatches
         /\ common.pauses = NumBatches - 1
         /\ Len(calls) = Len(COMMON_TABLES)

\* the last batch, shorter than 10, in flight after the sixteenth pause
C29_Witness ==
  /\ top = "discoverCommonTables" /\ pc = "b_wait"
  /\ common.pauses = NumBatches - 1
  /\ common.inFlight = BatchOf(batchSize * (NumBatches - 1))
  /\ Cardinality(common.inFlight) < batchSize

\* the candidates before position n whose probe was answered without error
AcceptedBefore(n) ==
  LET Found(name) == common.answers[name] = "ok"
      found == SelectSeq(SubSeq(COMMON_TABLES, 1, n), Found)
  IN [j \in 1..Len(found) |-> Desc(found[j], "public", "BASE TABLE")]

\* C30: for given probe outcomes the list the brute force returns is the same
\* whatever the order in which the probes of a batch complete: the accepted
\* names in candidate-list order, a name being accepted iff its zero-row
\* query returned without error
C30_CompletionOrderIrrelevant ==
  top = "discoverCommonTables" =>
    /\ pc = "b_wait" => common.found = AcceptedBefore(common.i)
    /\ pc = "done" =>
         /\ common.found = AcceptedBefore(Len(COMMON_TABLES))
         /\ common.found = discoverCommonTables(common.answers)

\* a run of the brute force that accepted three names of its first batch and
\* one of its last
C30_Witness ==
  /\ top = "discoverCommonTables" /\ pc = "done"
  /\ Len(common.found) = 4
  /\ common.found[1].table_name = "user"
  /\ common.found[3].table_name = "members"
  /\ common.answers["users"] = "throw"


\* the leaf named type of a field's type, under all its wrappers
LeafName(ref) == ref[Len(ref)].name

\* the type is the leaf of a query field, neither a built-in scalar nor a
\* reflection type, an object with fields, and no pagination wrapper
GraphQueryable(type) ==
  /\ \E i \in 1..Len(graphSchema.fields) : LeafName(graphSchema.fields[i]) = type.name
  /\ Str(type.name) \notin {"String", "Int", "Float", "Boolean", "ID"}
  /\ ~StartsWith(type.name, <<"_", "_">>)
  /\ type.kind = "OBJECT"
  /\ type.nfields >= 1
  /\ ~EndsWith(type.name, <<"C", "o", "n", "n", "e", "c", "t", "i", "o", "n">>)
  /\ ~EndsWith(type.name, <<"E", "d", "g", "e">>)
  /\ ~EndsWith(type.name, <<"P", "a", "g", "e", "I", "n", "f", "o">>)

\* the served type names with `_` before each uppercase letter, lowercased,
\* without a leading `_`
ConvertedName(cs) ==
  CASE cs = NameOrders -> "orders"
    [] cs = NameOrderItems -> "order_items"
    [] cs = NameHTTPLog -> "h_t_t_p_log"
    [] cs = NameNode -> "node"
    [] cs = NamePing -> "ping"
    [] cs = NameString -> "string"
    [] cs = NameIntrospection -> "___type"
    [] cs = NameOrdersConnection -> "orders_connection"
    [] cs = NameOrderEdge -> "order_edge"

\* the descriptors of the queryable types of the served schema
GraphExpected ==
  LET types == SelectSeq(graphSchema.types, GraphQueryable)
  IN [i \in 1..Len(types) |->
        GraphDesc(ConvertedName(types[i].name), Str(types[i].name), types[i].nfields)]

GraphReturned ==
  top = "discoverViaGraphQL" /\ pc = "done" /\ graphSchema.kind = "schema"

\* C31: graph-query discovery returns a descriptor for exactly the types that
\* are the leaf named type of a query field under any depth of list and
\* non-null wrappers, are not built-in scalars or reflection types, are
\* objects with at least one field and are no pagination wrappers; the
\* descriptor carries the converted name, the type name and the field count
C31_GraphLeafTypes ==
  GraphReturned => discoveredTables = GraphExpected

\* the same for the schemas whose fields have at most OFTYPE_LEVELS wrappers
C31_GraphLeafTypesShallow ==
  (GraphReturned /\ \A i \in 1..Len(graphSchema.fields) :
                      Len(graphSchema.fields[i]) <= OFTYPE_LEVELS + 1)
    => discoveredTables = GraphExpected

\* the catalog step returned nothing and the zero-row probe succeeded
SampleReached ==
  CatalogYield(colServer) = <<>> /\ colServer.probe = "ok"

\* the one-row sample succeeded with a row
SampleHasRow ==
  /\ colServer.sample.kind = "rows"
  /\ colServer.sample.rows # <<>>
  /\ colServer.sample.rows[1] # NullObject

\* C32: when the catalog step yields nothing and the probe and the one-row
\* sample succeed with a row, the resolver returns one descriptor per key of
\* the row, in key order, of type "unknown", nullable, with a null default,
\* and the sample is the last request; when the sample succeeds with no row
\* the remote procedure is asked next and decides the result
C32_SampleInference ==
  (ColumnsReturned /\ SampleReached) =>
    /\ SampleHasRow =>
         LET row == colServer.sample.rows[1]
         IN /\ columns.kind = "list"
            /\ Len(columns.cols) = Len(row)
            /\ \A i \in 1..Len(row) :
                 /\ columns.cols[i].column_name = row[i].k
                 /\ columns.cols[i].data_type = "unknown"
                 /\ columns.cols[i].is_nullable = "YES"
                 /\ columns.cols[i].column_default = JsNull
            /\ requests[Len(requests)].op = "columns.sample"
    /\ (colServer.sample.kind = "rows" /\ colServer.sample.rows = <<>>) =>
         /\ Len(requests) >= 2
         /\ requests[Len(requests) - 1].op = "columns.sample"
         /\ requests[Len(requests)].op = "columns.rpc"
         /\ columns = CASE colServer.rpc.kind = "rows" -> ColList(colServer.rpc.rows)
                         [] colServer.rpc.kind = "notlist" -> ColNotList
                         [] OTHER -> ColNull

\* columns inferred from the four keys of a sample row after a failed catalog query
C32_Witness ==
  /\ ColumnsReturned
  /\ QueryFailed(colServer.catalog)
  /\ SampleReached
  /\ SampleHasRow
  /\ colServer.sample.rows[1] = UserRow1
  /\ Len(columns.cols) = 4
  /\ columns.cols[2].column_name = "encrypted_password"

\* a bucket is being scanned
Scanning == top = "analyzeStorageBuckets" /\ scan # <<>>

\* the indexed entries that came from the root listing, and from folders
RootEntries == SelectSeq(objects.entries, LAMBDA o : o.path = o.name)
FolderEntries == SelectSeq(objects.entries, LAMBDA o : o.path # o.name)

\* C33: the prefixes listed are root-level entries whose name has no ".",
\* at most 30 of them and no more than there are such entries; every entry
\* found under a prefix is indexed with the path prefix/name; no folder is
\* listed once 2000 objects are indexed and entries of folders never take
\* the index past 2000
C33_FolderRecursion ==
  Scanning =>
    /\ Len(scan.folderRequests) <= FOLDER_PROBES
    /\ Len(scan.folderRequests) <= RunTotal(SelectSeq(RootEntries,
                                                       LAMBDA o : ~Includes(o.name, ".")))
    /\ \A i \in 1..Len(scan.folderRequests) :
         /\ ~Includes(scan.folderRequests[i].prefix, ".")
         /\ \E j \in 1..Len(RootEntries) :
              RootEntries[j].name = scan.folderRequests[i].prefix
         /\ scan.folderRequests[i].size < STORAGE_INDEX_LIMIT
    /\ \A i \in 1..Len(FolderEntries) :
         \E j \in 1..Len(scan.folderRequests) :
           FolderEntries[i].path
             = scan.folderRequests[j].prefix \o <<"/">> \o FolderEntries[i].name
    /\ objects.n = RunTotal(objects.entries)
    /\ FolderEntries # <<>> => objects.n <= STORAGE_INDEX_LIMIT

\* thirty of thirty-one folders were listed and their entries indexed
C33_Witness ==
  /\ Scanning
  /\ RunTotal(scan.possibleFolders) > FOLDER_PROBES
  /\ Len(scan.folderRequests) = FOLDER_PROBES
  /\ \E i \in 1..Len(FolderEntries) :
       FolderEntries[i].path = NameFolder \o <<"/">> \o NameFile

\* the folder loop ended because 2000 objects were indexed
C33_CapWitness ==
  /\ Scanning
  /\ pc = "s_verify"
  /\ FolderEntries # <<>>
  /\ objects.n = STORAGE_INDEX_LIMIT
  /\ Len(scan.folderRequests) < PossibleFolders

\* a step that verified one more public URL
VerifiedOne == scan # <<>> /\ scan' # <<>> /\ scan'.sample = scan.sample + 1

\* C34: an audit's publicUrlCheck has sampleSize = min(5, objectCount) and
\* 0 <= verified <= sampleSize; each of the first sampleSize objects is
\* verified once, in order, the count grows by one exactly when the URL was
\* resolved and its fetch answered with a successful status, a fetch that
\* throws leaves the count and the scan goes on; the count reported is the
\* count reached when all the samples are verified
C34_PublicUrlCheck ==
  /\ [](\A audit \in Audits :
          audit.publicUrlCheck.present =>
            /\ audit.publicUrlCheck.sampleSize
                 = Min(STORAGE_PUBLIC_VERIFY_SAMPLE, audit.objectCount)
            /\ audit.publicUrlCheck.verified \in 0..audit.publicUrlCheck.sampleSize)
  /\ [][top = "analyzeStorageBuckets" =>
          /\ VerifiedOne =>
               /\ scan'.sample <= Min(STORAGE_PUBLIC_VERIFY_SAMPLE, objects.n)
               /\ scan'.fetched.path = EntryAt(objects.entries, scan'.sample).path
               /\ scan'.verified
                    = scan.verified + (IF scan'.fetched.answer = "reachable" THEN 1 ELSE 0)
               /\ pc' = "s_verify" /\ thrown' = "none" /\ objects' = objects
          /\ (scan # <<>> /\ scan' # <<>> /\ scan'.verified # scan.verified) =>
               (VerifiedOne \/ scan' = NewScan)
          /\ (out' # out /\ out' # <<>> /\ out'[Len(out')].publicUrlCheck.present) =>
               /\ scan.sample = out'[Len(out')].publicUrlCheck.sampleSize
               /\ scan.verified = out'[Len(out')].publicUrlCheck.verified
               /\ out'[Len(out')].objectCount = objects.n]_vars

\* an audit of five samples of which a fetch threw and two were reachable
C34_Witness ==
  /\ top = "analyzeStorageBuckets"
  /\ pc = "s_bucket"
  /\ scan # <<>> /\ scan.fetched # <<>> /\ scan.fetched.answer = "fetch threw"
  /\ out # <<>>
  /\ out[Len(out)].publicUrlCheck = Check(2, STORAGE_PUBLIC_VERIFY_SAMPLE)
  /\ out[Len(out)].objectCount > STORAGE_PUBLIC_VERIFY_SAMPLE

\* the phases of a run, in the order of runExtraction: start, connection
\* check, authentication, discovery, extraction, storage scan, sign-out, end
PhaseOf(label) ==
  CASE label = "r_start" -> 0
    [] label = "r_connect" -> 1
    [] label = "r_auth" -> 2
    [] label \in {"m1a", "m1b", "m2", "m3", "m4", "m4b", "m5", "m5b", "m7", "merge",
                  "r_tables", "r_export"} -> 3
    [] label \in {"r_table", "x_start", "c_catalog", "c_probe", "c_sample", "c_rpc",
                  "x_cols", "x_query", "x_retry", "x_finish", "r_record"} -> 4
    [] label \in {"s_list", "s_bucket", "s_first", "s_page", "s_filter", "s_folders",
                  "s_verify", "r_storage"} -> 5
    [] label = "r_signout" -> 6
    [] OTHER -> 7

\* the requests the step adds to the calls
NewCalls == SubSeq(calls', Len(calls) + 1, Len(calls'))

\* the step asks for a collection before the record of the one before it in
\* the merged list is appended
AsksAhead ==
  \/ \E k \in 1..Len(NewCalls), j \in 1..Len(tableList) :
       /\ NewCalls[k] = ExportRequest(tableList[j])
       /\ Len(result.tables) < j - 1
  \/ /\ requests' # requests /\ requests' # <<>>
     /\ ~(/\ tableIdx \in 1..Len(tableList)
          /\ table = tableList[tableIdx]
          /\ Len(result.tables) = tableIdx - 1)

\* the step appends a record or an audit out of turn
OutOfTurn ==
  \/ /\ result # <<>> /\ result'.tables # result.tables
     /\ ~(/\ Len(result'.tables) = Len(result.tables) + 1
          /\ result'.tables[Len(result'.tables)].table_name = tableList[tableIdx].table_name
          /\ SubSeq(result'.tables, 1, Len(result.tables)) = result.tables)
  \/ /\ out' # out /\ out' # <<>>
     /\ ~(/\ out' = Append(out, bucketOut')
          /\ bucketOut'.name = BucketName(Head(buckets))
          /\ bucket = Head(buckets)
          /\ buckets' = Tail(buckets))
  \/ /\ scan # <<>> /\ scan' # scan /\ scan' # NewScan
     /\ ~(buckets # <<>> /\ bucket = Head(buckets) /\ out' = out)

\* in a run that returned: the connection check is the first request, the
\* sign-out the last, and the bucket listing follows every other request
CallsInOrder ==
  RunReturned =>
    /\ calls # <<>> /\ calls[1] = "auth.getSession"
    /\ \A i \in 1..Len(calls) :
         /\ calls[i] = "auth.getSession" => i = 1
         /\ calls[i] \in {"auth.getUser", "auth.signInWithPassword"} => i = 2
         /\ calls[i] = "auth.signOut" => i = Len(calls)
         /\ calls[i] = "storage.listBuckets" =>
              \A j \in (i + 1)..Len(calls) : calls[j] = "auth.signOut"

\* C35: the phases of a run follow one another in the order connection
\* check, authentication, discovery, extraction, storage scan, sign-out;
\* no request for a collection is issued before the record of the collection
\* before it in the merged list is appended, the records are appended in
\* merged order, and the buckets are scanned one at a time in listing order
C35_PhaseOrder ==
  /\ []CallsInOrder
  /\ [][top = "runExtraction" =>
          /\ PhaseOf(pc') >= PhaseOf(pc)
          /\ ~AsksAhead
          /\ ~OutOfTurn]_vars

\* the same for the runs that export no schema
C35_PhaseOrderNoExport ==
  /\ []CallsInOrder
  /\ [][(top = "runExtraction" /\ ~Truthy(config.exportSql)) =>
          /\ PhaseOf(pc') >= PhaseOf(pc)
          /\ ~AsksAhead
          /\ ~OutOfTurn]_vars

\* the most pages a root listing takes: the first, and pages of 200 while
\* fewer than 2000 entries are indexed
MaxRootPages == 1 + STORAGE_INDEX_LIMIT \div NEXT_PAGE_LIMIT

\* C36: a bucket scan issues a bounded number of root list requests, every
\* iteration of the root paging that stays in the loop adds entries, at most
\* 30 folder listings and at most 5 public-URL fetches follow, and when every
\* request is answered the scan of the buckets reaches its end
C36_ScanTerminates ==
  /\ [](Scanning =>
          /\ Len(scan.pages) <= MaxRootPages
          /\ Len(scan.folderRequests) <= FOLDER_PROBES
          /\ scan.sample <= STORAGE_PUBLIC_VERIFY_SAMPLE)
  /\ [][(pc = "s_page" /\ pc' = "s_page") => objects'.n > objects.n]_vars
  /\ <>(pc \in {"done", "threw"})

\* a scan of two buckets that ended after eleven root pages of one of them
C36_Witness ==
  /\ top = "analyzeStorageBuckets"
  /\ pc = "done"
  /\ Len(out) = 2
  /\ Len(scan.pages) = MaxRootPages

\* a run whose requests are all answered comes to its end
C36_RunTerminates == <>(pc \in {"done", "threw"})

\* C37: in any 60 seconds at most 10 requests of one address reach the
\* handler of POST /api/run, every further request is answered 429, and a
\* request of one address changes nothing of what the limiter holds for
\* another
C37_TenPerMinute ==
  /\ [](top = "server" => \A ip \in ClientIps : Len(admitted[ip]) <= RATE_LIMIT_MAX)
  /\ [][(top = "server" /\ response' # response) =>
          /\ response'.status = 429 <=>
               Len(LastMinute(admitted[response'.ip], now)) >= RATE_LIMIT_MAX
          /\ \A ip \in ClientIps \ {response'.ip} :
               runCountByIp'[ip] = runCountByIp[ip] /\ Len(admitted'[ip]) <= Len(admitted[ip])]_vars

\* the same for the window the limiter counts in, from the first request
\* after a reset to 60 seconds later
C37_TenPerWindow ==
  /\ [](top = "server" =>
          \A ip \in ClientIps :
            (runCountByIp[ip] # NoEntry /\ now < runCountByIp[ip].resetAt) =>
              LET since == runCountByIp[ip].resetAt - RATE_LIMIT_WINDOW_MS
                  let == SelectSeq(admitted[ip], LAMBDA t : t >= since)
              IN Len(let) = Min(runCountByIp[ip].count, RATE_LIMIT_MAX))
  /\ [][(top = "server" /\ response' # response) =>
          /\ response'.status = 429 <=> runCountByIp'[response'.ip].count > RATE_LIMIT_MAX
          /\ \A ip \in ClientIps \ {response'.ip} :
               runCountByIp'[ip] = runCountByIp[ip] /\ Len(admitted'[ip]) <= Len(admitted[ip])]_vars

\* the rules whose column pattern matches a name, by their place in PII_RULES
RulesMatching(colName) ==
  {r \in 1..Len(PII_RULES) : ColumnPatternTest(PII_RULES[r], colName)}

\* the place of the rule of a type, and of the column of a name
RuleIndex(piiType) == CHOOSE r \in 1..Len(PII_RULES) : PII_RULES[r].piiType = piiType
ColumnIndex(colName) ==
  CHOOSE i \in 1..Len(piiColumns.cols) : piiColumns.cols[i].column_name = colName

NoDuplicateNames ==
  \A i, j \in 1..Len(piiColumns.cols) :
    piiColumns.cols[i].column_name = piiColumns.cols[j].column_name => i = j

\* C38: the five shipped rules match pairwise disjoint sets of column names,
\* so detectPII of a column list without duplicate names returns at most one
\* finding per column, and the findings come in rule order, then column order
C38_OneFindingPerColumn ==
  /\ \A r1, r2 \in 1..Len(PII_RULES) :
       r1 # r2 => PII_RULES[r1].columns \cap PII_RULES[r2].columns = {}
  /\ (PiiReturned /\ NoDuplicateNames) =>
       /\ \A i \in 1..Len(piiColumns.cols) :
            LET c == piiColumns.cols[i].column_name
            IN /\ Cardinality(RulesMatching(c)) <= 1
               /\ Cardinality({k \in 1..Len(findings) : findings[k].column = c})
                    = Cardinality(RulesMatching(c))
       /\ \A k \in 1..Len(findings) :
            RuleIndex(findings[k].piiType) \in RulesMatching(findings[k].column)
       /\ \A j, k \in 1..Len(findings) :
            j < k =>
              \/ RuleIndex(findings[j].piiType) < RuleIndex(findings[k].piiType)
              \/ /\ findings[j].piiType = findings[k].piiType
                 /\ ColumnIndex(findings[j].column) < ColumnIndex(findings[k].column)

\* two findings of different rules, the later column first
C38_Witness ==
  /\ PiiReturned
  /\ NoDuplicateNames
  /\ Len(findings) = 2
  /\ findings[1].piiType # findings[2].piiType
  /\ ColumnIndex(findings[1].column) > ColumnIndex(findings[2].column)

\* the requests of the column resolver within one extraction
ColumnOps == {"columns.catalog", "columns.probe", "columns.sample", "columns.rpc"}
ColumnRequests == {i \in 1..Len(requests) : requests[i].op \in ColumnOps}

\* columns: null, or a list without a descriptor
Unresolved(cols) == cols.kind = "null" \/ (cols.kind = "list" /\ cols.cols = <<>>)

\* the extraction of a graph collection asks for no columns and leaves them
\* unresolved
GraphSkipsInExtraction ==
  (extracted # <<>> /\ extracted.table_type = "GRAPHQL_TYPE") =>
    ColumnRequests = {} /\ extracted.columns = ColNull

\* the records of graph collections have no columns, and the records
\* without columns have no findings
RecordsWithoutColumns ==
  (top = "runExtraction" /\ result # <<>>) =>
    \A i \in 1..Len(result.tables) :
      LET row == result.tables[i]
      IN /\ row.table_type = "GRAPHQL_TYPE" => row.columns = ColNull
         /\ Unresolved(row.columns) => row.piiFindings = <<>>

\* the schema export asked for the columns of a graph collection
ExportAskedGraph ==
  \E i \in 1..Len(tableList) :
    /\ tableList[i].table_type = "GRAPHQL_TYPE"
    /\ ExportRequest(tableList[i]) \in Range(calls)

\* C39: no column request is ever issued for a collection found by the
\* graph query and the columns of its record stay unresolved; a record whose
\* columns are unresolved or empty has no PII finding, whatever its sample
C39_GraphSkipsResolver ==
  /\ GraphSkipsInExtraction
  /\ RecordsWithoutColumns
  /\ top = "runExtraction" => ~ExportAskedGraph

\* the same for the extraction loop alone, whatever the export asked
C39_GraphSkipsResolverInLoop == GraphSkipsInExtraction /\ RecordsWithoutColumns

\* a graph collection recorded with sample rows, no columns and no finding
C39_LoopWitness ==
  /\ top = "runExtraction"
  /\ result # <<>>
  /\ \E i \in 1..Len(result.tables) :
       /\ result.tables[i].table_type = "GRAPHQL_TYPE"
       /\ result.tables[i].sampleRows # <<>>
       /\ result.tables[i].columns = ColNull
       /\ result.tables[i].piiFindings = <<>>
====
